---- MODULE Spec2Model ----
(***************************************************************************)
(* A model of the gb_emulator core: the CPU step (interrupt check, fetch,  *)
(* execute, Bus::tick), the bus interrupt registers, the timer and the PPU *)
(* scanline clock.  Bytes are naturals 0..255, 16-bit words 0..65535.  The *)
(* bitflags structs (CpuFlag, Interrupt, Control, Status) are modelled by  *)
(* their bits() value.                                                     *)
(***************************************************************************)
EXTENDS Integers, Sequences, FiniteSets, TLC

VARIABLES
    \* Cpu (cpu.rs:23-40)
    a, b, c, d, e, flags, h, l, stack_pointer, program_counter, ime, halted,
    prefixed_mode, frame_ready, cycles,
    \* position inside Cpu::step and what the step last did
    at, opcode_num, imm8_read, imm16_read, tick_cycles, panicked, steps,
    \* Bus (bus.rs:26-38) and Joypad::interrupt
    interrupt_enable, interrupt_flag, hram, cpu_ram, joypad_interrupt,
    \* Apu (apu.rs:1-12), a record of its fields and channels
    apu,
    \* the mapper behind Bus::cartridge (cartridge.rs:46-61, 174-184, 291-294)
    \* and the wall clock of the host, which Local::now() reads
    cart, host_clock,
    \* the last Bus::mem_read / Bus::mem_write called on its own: which of
    \* the two, its address, the byte written, the byte returned
    bus_access, bus_addr, bus_data, read_value,
    \* the <<addr, data>> of the calls of Bus::mem_write made on its own, in
    \* order
    write_log,
    \* Timer (timer.rs:1-9)
    divider_counter, divider_cycle, timer_counter, timer_cycle,
    timer_modulo, tac_enable, tac_clock,
    \* Ppu (ppu.rs:61-81) and the tuple Ppu::tick last returned
    control, status, lyc, cycle, scanline, mode, vram, oam,
    display_result, lcd_interrupt, vblank_interrupt, timer_interrupt,
    joypad_request

cpuVars == <<a, b, c, d, e, flags, h, l, stack_pointer, program_counter, ime, halted,
             prefixed_mode, frame_ready, cycles>>
stepVars == <<at, opcode_num, imm8_read, imm16_read, tick_cycles, panicked,
              steps>>
busVars == <<interrupt_enable, interrupt_flag, hram, cpu_ram, joypad_interrupt,
            apu, cart, host_clock>>
accessVars == <<bus_access, bus_addr, bus_data, read_value, write_log>>
timerVars == <<divider_counter, divider_cycle, timer_counter, timer_cycle,
               timer_modulo, tac_enable, tac_clock>>
ppuVars == <<control, status, lyc, cycle, scanline, mode, vram, oam>>
resultVars == <<display_result, lcd_interrupt, vblank_interrupt,
                timer_interrupt, joypad_request>>
vars == <<cpuVars, stepVars, busVars, accessVars, timerVars, ppuVars,
          resultVars>>

----------------------------------------------------------------------------
(* Bit arithmetic on naturals *)

Bit(x, i) == (x \div (2 ^ i)) % 2

\* bitwise and of two bytes
BitAnd8(x, y) ==
      (x % 2) * (y % 2)
    + 2 * (((x \div 2) % 2) * ((y \div 2) % 2))
    + 4 * (((x \div 4) % 2) * ((y \div 4) % 2))
    + 8 * (((x \div 8) % 2) * ((y \div 8) % 2))
    + 16 * (((x \div 16) % 2) * ((y \div 16) % 2))
    + 32 * (((x \div 32) % 2) * ((y \div 32) % 2))
    + 64 * (((x \div 64) % 2) * ((y \div 64) % 2))
    + 128 * (((x \div 128) % 2) * ((y \div 128) % 2))

\* bitwise and of two 16-bit words
BitAnd(x, y) ==
    BitAnd8(x % 256, y % 256) + 256 * BitAnd8(x \div 256, y \div 256)
BitOr(x, y) == x + y - BitAnd(x, y)
BitXor(x, y) == x + y - 2 * BitAnd(x, y)

\* bitflags: contains / insert / remove / set
Contains(bits, flag) == BitAnd(bits, flag) = flag
Insert(bits, flag) == BitOr(bits, flag)
Remove(bits, flag) == bits - BitAnd(bits, flag)
SetFlag(bits, flag, on) == IF on THEN Insert(bits, flag) ELSE Remove(bits, flag)

\* A byte array that starts all zero (cpu_ram, vram, oam) is kept as the
\* function from the indices of its non-zero bytes to those bytes
ZeroArray == [i \in {} |-> 0]
Load(m, i) == IF i \in DOMAIN m THEN m[i] ELSE 0
Store(m, i, v) ==
    [j \in (IF v = 0 THEN DOMAIN m \ {i} ELSE DOMAIN m \cup {i}) |->
        IF j = i THEN v ELSE m[j]]
\* the array holding the bytes of a page
Pack(page) == [i \in {j \in DOMAIN page : page[j] # 0} |-> page[i]]

Lo(w) == w % 256
Hi(w) == w \div 256
Word(hi, lo) == hi * 256 + lo

----------------------------------------------------------------------------
(* Ppu *)

lcd_enable == 128
lyc_select == 64
mode_two_select == 32
mode_one_select == 16
mode_zero_select == 8
compare == 4

MODE2_END == 80
MODE3_START == 81
MODE3_END == 172 + MODE2_END
MODE0_START == MODE3_END + 1
MODE0_END == 456
SCANLINE_LENGTH == 456
MAX_SCANLINE == 153
MODE1_START == 144

Modes == {"MODE0", "MODE1", "MODE2", "MODE3"}
DisplayStatus == {"DoNothing", "OAMScan", "NewScanline", "NewFrame"}

ModeBits(m) ==
    CASE m = "MODE0" -> 0
      [] m = "MODE1" -> 1
      [] m = "MODE2" -> 2
      [] m = "MODE3" -> 3

\* Ppu::read_status: status.bits() + mode, a u8 addition
ReadStatus(p) ==
    LET m == IF ~Contains(p.control, lcd_enable) THEN 0 ELSE ModeBits(p.mode)
    IN  (p.status + m) % 256

\* Ppu::write_status / Ppu::write_to_ctrl keep every bit written
WriteStatus(p, val) == [p EXCEPT !.status = val]
WriteToCtrl(p, val) == [p EXCEPT !.control = val]

\* a line wrap that leaves the mode of the last line in place
ModeAfterWrapKept(wrapped, m) == m

\* Ppu::tick, "After vblank, reset to scanline 0": the mode after the wrap
ModeAfterWrap(wrapped, m) == IF wrapped THEN "MODE2" ELSE m

\* a VBlank start taken at every line advance
VblankStartEveryLine(adv, sl) == adv

\* Ppu::tick, "vblank has started": the line advance that reaches line 144
VblankStart(adv, sl) == adv /\ sl = MODE1_START

\* a comparison taken in every tick in which LY equals LYC
LycHitLevel(adv, sl, ly_compare) == sl = ly_compare

\* Ppu::tick, "if self.scanline == self.lyc" inside the line advance
LycHit(adv, sl, ly_compare) == adv /\ sl = ly_compare

\* Ppu::tick.  p is the Ppu, n the cycles; the result is the Ppu after the
\* tick together with the returned (DisplayStatus, lcd, vblank).
PpuTick(p, n) ==
    LET c1 == p.cycle + n
        prior_mode == p.mode
        adv == c1 > SCANLINE_LENGTH
        c2 == IF adv THEN c1 % SCANLINE_LENGTH ELSE c1
        sl1 == IF adv THEN p.scanline + 1 ELSE p.scanline
        wrapped == adv /\ sl1 > MAX_SCANLINE
        sl2 == IF wrapped THEN 0 ELSE sl1
        m1 == ModeAfterWrap(wrapped, p.mode)
        vb == VblankStart(adv, sl2)
        m2 == IF vb THEN "MODE1" ELSE m1
        lycHit == LycHit(adv, sl2, p.lyc)
        st1 == IF lycHit THEN Insert(p.status, compare) ELSE p.status
        lcd1 == \/ vb /\ Contains(p.status, mode_one_select)
                \/ lycHit /\ Contains(st1, lyc_select)
        m3 == IF m2 # "MODE1"
              THEN IF c2 <= MODE2_END THEN "MODE2"
                   ELSE IF c2 <= MODE3_END THEN "MODE3"
                   ELSE IF c2 <= MODE0_END THEN "MODE0"
                   ELSE m2
              ELSE m2
        c3 == IF m2 # "MODE1" /\ c2 > MODE0_END THEN c2 % MODE0_END ELSE c2
        changed == prior_mode # m3
        lcd2 == \/ lcd1
                \/ changed /\ m3 = "MODE0" /\ Contains(st1, mode_zero_select)
                \/ changed /\ m3 = "MODE1" /\ Contains(st1, mode_one_select)
                \/ changed /\ m3 = "MODE2" /\ Contains(st1, mode_two_select)
        disp == IF ~changed THEN "DoNothing"
                ELSE CASE m3 = "MODE0" -> "DoNothing"
                       [] m3 = "MODE1" -> "NewFrame"
                       [] m3 = "MODE2" -> "OAMScan"
                       [] m3 = "MODE3" -> "NewScanline"
        new_mode == IF ~Contains(p.control, lcd_enable) THEN 0 ELSE ModeBits(m3)
        st2 == IF changed THEN BitOr(BitAnd(st1, 252), new_mode) ELSE st1
    IN  [ppu |-> [p EXCEPT !.cycle = c3, !.scanline = sl2, !.mode = m3,
                           !.status = st2],
         display |-> disp, lcd |-> lcd2, vblank |-> vb]

\* The value Bus::tick returns for a DisplayStatus
FrameComplete(disp) == disp = "NewFrame"

----------------------------------------------------------------------------
(* Timer *)

TIMER_CYCLES == <<256, 4, 16, 64>>

\* Timer::tac_write / Timer::tac_read
TacWrite(t, val) ==
    [t EXCEPT !.tac_enable = BitAnd(val, 4) > 0, !.tac_clock = BitAnd(val, 3)]
TacRead(t) == (IF t.tac_enable THEN 4 ELSE 0) + t.tac_clock

\* Timer::divider_tick
DividerTick(t, n) ==
    LET dc == t.divider_cycle + n
    IN  IF dc >= TIMER_CYCLES[4]
        THEN [t EXCEPT !.divider_counter = (t.divider_counter + 1) % 256,
                       !.divider_cycle = dc - TIMER_CYCLES[4]]
        ELSE [t EXCEPT !.divider_cycle = dc]

\* the while loop of Timer::timer_tick: it returns at the first overflow
RECURSIVE TimerDrain(_)
TimerDrain(t) ==
    LET period == TIMER_CYCLES[t.tac_clock + 1]
    IN  IF t.tac_enable /\ t.timer_cycle >= period
        THEN IF t.timer_counter = 255
             THEN [timer |-> [t EXCEPT !.timer_cycle = t.timer_cycle - period,
                                       !.timer_counter = t.timer_modulo],
                   interrupt |-> TRUE]
             ELSE TimerDrain([t EXCEPT !.timer_cycle = t.timer_cycle - period,
                                       !.timer_counter = t.timer_counter + 1])
        ELSE [timer |-> t, interrupt |-> FALSE]

\* Timer::timer_tick
TimerTimerTick(t, n) ==
    TimerDrain(IF t.tac_enable THEN [t EXCEPT !.timer_cycle = t.timer_cycle + n]
               ELSE t)

\* Timer::tick
TimerTick(t, n) == TimerTimerTick(DividerTick(t, n), n)

----------------------------------------------------------------------------
(* Apu.  Where a result is used more than once it is bound by a set,
   CHOOSE r \in {F(x) : x \in {e}} : TRUE, which is F(e) with e evaluated
   once. *)

\* Envelope::new, LengthCounter::new, Sweep::new
EnvelopeNew ==
    [init_vol |-> 0, volume |-> 0, mode |-> TRUE, period |-> 0, counter |-> 0]
LengthCounterNew ==
    [enabled |-> FALSE, counter |-> 0, reset_val |-> 0,
     next_frame_no_clock |-> FALSE]
SweepNew ==
    [enabled |-> FALSE, period |-> 0, shadow_freq |-> 0, direction |-> TRUE,
     shift |-> 0, counter |-> 0, neg_calc_made |-> FALSE]

\* Envelope::read
EnvelopeRead(env) ==
    env.init_vol * 16 + (IF env.mode THEN 8 ELSE 0) + env.period

\* Envelope::tick
EnvelopeTick(env) ==
    IF env.period = 0 THEN env
    ELSE IF env.counter > 1 THEN [env EXCEPT !.counter = env.counter - 1]
    ELSE [env EXCEPT !.counter = env.period,
                     !.volume = IF env.volume < 15 /\ env.mode
                                THEN env.volume + 1
                                ELSE IF env.volume > 0 /\ ~env.mode
                                THEN env.volume - 1
                                ELSE env.volume]

\* LengthCounter::set
LengthSet(lc, val) == [lc EXCEPT !.counter = val, !.reset_val = val]

\* LengthCounter::enable: the counter, and whether the caller clocks it
LengthEnable(lc, enabled) ==
    [lc |-> [lc EXCEPT !.enabled = enabled],
     clock |-> ~lc.enabled /\ enabled /\ lc.next_frame_no_clock]

\* a length clock that leaves a channel whose counter ran out enabled
LenCtrTickKeepEnabled(ch) ==
    IF ch.length_counter.enabled /\ ch.length_counter.counter > 0
    THEN [ch EXCEPT !.length_counter.counter = ch.length_counter.counter - 1]
    ELSE ch

\* SquareChannel / WaveChannel / NoiseChannel::len_ctr_tick, with
\* LengthCounter::tick
LenCtrTick(ch) ==
    IF ch.length_counter.enabled /\ ch.length_counter.counter > 0
    THEN [ch EXCEPT !.length_counter.counter = ch.length_counter.counter - 1,
                    !.enabled = IF ch.length_counter.counter = 1 THEN FALSE
                                ELSE ch.enabled]
    ELSE IF ch.length_counter.counter = 0 THEN [ch EXCEPT !.enabled = FALSE]
    ELSE ch

\* Sweep::reload_counter
SweepReloadCounter(sw) ==
    [sw EXCEPT !.counter = IF sw.period = 0 THEN 8 ELSE sw.period]

\* SquareChannel::new
SquareNew(sweep_enabled) ==
    [power_on |-> FALSE, enabled |-> FALSE, dac_on |-> FALSE,
     sweep |-> SweepNew, sweep_enabled |-> sweep_enabled, wave_pattern |-> 0,
     duty_step |-> 0, period |-> 0, period_divider |-> 0,
     envelope |-> EnvelopeNew, length_counter |-> LengthCounterNew]

\* a sweep calculation that never switches the channel off
SweepCalNoCheck(ch) ==
    LET offset == ch.sweep.shadow_freq \div (2 ^ ch.sweep.shift)
        new_period == IF ch.sweep.direction
                      THEN (ch.sweep.shadow_freq + offset) % 65536
                      ELSE (ch.sweep.shadow_freq + 65536 - offset) % 65536
    IN  [ch |-> [ch EXCEPT !.sweep.neg_calc_made =
                               IF ch.sweep.direction THEN @ ELSE TRUE],
         new_period |-> new_period]

\* SquareChannel::sweep_cal: the channel after it, and the period returned
SweepCal(ch) ==
    LET offset == ch.sweep.shadow_freq \div (2 ^ ch.sweep.shift)
        new_period == IF ch.sweep.direction
                      THEN (ch.sweep.shadow_freq + offset) % 65536
                      ELSE (ch.sweep.shadow_freq + 65536 - offset) % 65536
    IN  [ch |-> [ch EXCEPT !.sweep.neg_calc_made =
                               IF ch.sweep.direction THEN @ ELSE TRUE,
                           !.enabled = IF new_period > 2047 THEN FALSE ELSE @],
         new_period |-> new_period]

\* a trigger that reloads a length counter that is 0 with max in every case
TriggerLengthMax(ch, max) ==
    [ch EXCEPT !.enabled = ch.dac_on,
               !.length_counter.counter =
                   IF ch.length_counter.counter # 0 THEN @ ELSE max]

\* the start of trigger(): self.enabled = self.dac_on, and the reload of a
\* length counter that is 0 with max, or max - 1 when length is enabled and
\* the next frame step does not clock it
TriggerLength(ch, max) ==
    [ch EXCEPT !.enabled = ch.dac_on,
               !.length_counter.counter =
                   IF ch.length_counter.counter # 0 THEN @
                   ELSE IF ch.length_counter.next_frame_no_clock
                           /\ ch.length_counter.enabled
                   THEN max - 1 ELSE max]

\* SquareChannel::trigger
SquareTrigger(ch) ==
    CHOOSE r \in {
        IF ~c2.sweep_enabled THEN c2
        ELSE IF c2.sweep.shift # 0 THEN SweepCal(c2).ch ELSE c2 :
        c2 \in {
            [c1 EXCEPT !.period_divider = c1.period,
                       !.envelope.counter = c1.envelope.period,
                       !.envelope.volume = c1.envelope.init_vol,
                       !.sweep = IF ~c1.sweep_enabled THEN @
                                 ELSE [SweepReloadCounter(@) EXCEPT
                                          !.neg_calc_made = FALSE,
                                          !.shadow_freq = c1.period,
                                          !.enabled = (c1.sweep.period # 0
                                                       \/ c1.sweep.shift # 0)]] :
            c1 \in {TriggerLength(ch, 64)} } } : TRUE

\* SquareChannel::sweep_tick
SweepTick(ch) ==
    IF ch.sweep.counter > 1
    THEN [ch EXCEPT !.sweep.counter = ch.sweep.counter - 1]
    ELSE CHOOSE r \in {
        IF ~(c1.sweep.enabled /\ c1.sweep.period > 0) THEN c1
        ELSE CHOOSE q \in {
            IF cal.new_period <= 2047 /\ c1.sweep.shift > 0
            THEN SweepCal([cal.ch EXCEPT !.period = cal.new_period,
                              !.sweep.shadow_freq = cal.new_period]).ch
            ELSE cal.ch : cal \in {SweepCal(c1)} } : TRUE :
        c1 \in {[ch EXCEPT !.sweep = SweepReloadCounter(ch.sweep)]} } : TRUE

\* SquareChannel::sweep_write (NR10)
SquareSweepWrite(ch, val) ==
    IF ~ch.power_on THEN ch
    ELSE [ch EXCEPT !.sweep.period = (val \div 16) % 8,
                    !.sweep.direction = ((val \div 8) % 2 = 0),
                    !.sweep.neg_calc_made =
                        IF @ /\ (val \div 8) % 2 = 0 THEN FALSE ELSE @,
                    !.enabled =
                        IF ch.sweep.neg_calc_made /\ (val \div 8) % 2 = 0
                        THEN FALSE ELSE @,
                    !.sweep.shift = val % 8]

\* SquareChannel::sweep_read
SquareSweepRead(ch) ==
    ch.sweep.period * 16 + (IF ch.sweep.direction THEN 0 ELSE 8)
        + ch.sweep.shift + 128

\* SquareChannel::length_timer_write (NR11, NR21)
SquareLengthTimerWrite(ch, val) ==
    [ch EXCEPT !.wave_pattern = IF ch.power_on THEN val \div 64 ELSE @,
               !.length_counter = LengthSet(@, 64 - (val % 64))]

\* SquareChannel::length_timer_read
SquareLengthTimerRead(ch) == ch.wave_pattern * 64 + 63

\* SquareChannel / NoiseChannel::envelope_write (NR12, NR22, NR42)
EnvelopeWrite(ch, val) ==
    IF ~ch.power_on THEN ch
    ELSE [ch EXCEPT !.envelope.init_vol = val \div 16,
                    !.envelope.volume = val \div 16,
                    !.envelope.mode = ((val \div 8) % 2 = 1),
                    !.envelope.period = val % 8,
                    !.dac_on = (val \div 8 > 0),          \* val & 0xf8 > 0
                    !.enabled = IF val \div 8 > 0 THEN @ ELSE FALSE]

\* SquareChannel / WaveChannel::period_low_write (NR13, NR23, NR33)
PeriodLowWrite(ch, val) ==
    IF ~ch.power_on THEN ch
    ELSE [ch EXCEPT !.period = ((ch.period \div 256) % 8) * 256 + val]

\* the length-enable part of control_write: LengthCounter::enable and the
\* extra len_ctr_tick
ControlLength(ch, val) ==
    CHOOSE r \in {
        IF le.clock THEN LenCtrTick([ch EXCEPT !.length_counter = le.lc])
        ELSE [ch EXCEPT !.length_counter = le.lc] :
        le \in {LengthEnable(ch.length_counter, (val \div 64) % 2 = 1)} } : TRUE

\* SquareChannel::control_write (NR14, NR24)
SquareControlWrite(ch, val) ==
    IF ~ch.power_on THEN ch
    ELSE CHOOSE r \in {
        IF val >= 128 THEN SquareTrigger(c1) ELSE c1 :
        c1 \in {ControlLength(
                  [ch EXCEPT !.period = (ch.period % 256) + (val % 8) * 256],
                  val)} } : TRUE

\* SquareChannel / WaveChannel / NoiseChannel::control_read
ControlRead(ch) == (IF ch.length_counter.enabled THEN 64 ELSE 0) + 191

\* SquareChannel::tick
SquareTick(ch) ==
    IF ch.period_divider > 1
    THEN [ch EXCEPT !.period_divider = ch.period_divider - 1]
    ELSE [ch EXCEPT !.period_divider = 2048 - ch.period,
                    !.duty_step = (ch.duty_step + 1) % 8]

\* SquareChannel::power_down
SquarePowerDown(ch) ==
    CHOOSE r \in {
        [c5 EXCEPT !.power_on = FALSE] :
        c5 \in {SquareControlWrite(c4, 0) :
        c4 \in {PeriodLowWrite(c3, 0) :
        c3 \in {EnvelopeWrite([c1 EXCEPT !.wave_pattern = 0], 0) :
        c1 \in {SquareSweepWrite(ch, 0)} } } } } : TRUE

\* WaveChannel::new
WaveNew ==
    [power_on |-> FALSE, enabled |-> FALSE, dac_on |-> FALSE,
     length_counter |-> LengthCounterNew, volume |-> 0, output_level |-> 0,
     period |-> 0, period_divider |-> 0,
     wave_ram |-> [i \in 0 .. 15 |->
                     <<132, 64, 67, 170, 45, 120, 146, 60, 96, 89, 89, 176,
                       52, 184, 46, 218>>[i + 1]],
     sample |-> 0, position |-> 0]

\* WaveChannel::trigger
WaveTrigger(ch) ==
    CHOOSE r \in {
        [c1 EXCEPT !.volume = c1.output_level,
                   !.period_divider = c1.period,
                   !.position = 0] :
        c1 \in {TriggerLength(ch, 256)} } : TRUE

\* WaveChannel::dac_enable_write (NR30)
WaveDacEnableWrite(ch, val) ==
    IF ~ch.power_on THEN ch
    ELSE [ch EXCEPT !.dac_on = (val >= 128),
                    !.enabled = IF val >= 128 THEN @ ELSE FALSE]

\* WaveChannel::dac_enable_read
WaveDacEnableRead(ch) == (IF ch.dac_on THEN 128 ELSE 0) + 127

\* WaveChannel::length_timer (NR31)
WaveLengthTimer(ch, val) ==
    [ch EXCEPT !.length_counter = LengthSet(@, 256 - val)]

\* WaveChannel::output_level_write (NR32)
WaveOutputLevelWrite(ch, val) ==
    IF ~ch.power_on THEN ch
    ELSE [ch EXCEPT !.output_level = (val \div 32) % 4]

\* WaveChannel::output_level_read
WaveOutputLevelRead(ch) == ch.output_level * 32 + 159

\* WaveChannel::control_write (NR34)
WaveControlWrite(ch, val) ==
    IF ~ch.power_on THEN ch
    ELSE CHOOSE r \in {
        IF val >= 128 THEN WaveTrigger(c1) ELSE c1 :
        c1 \in {ControlLength(
                  [ch EXCEPT !.period = (ch.period % 256) + (val % 8) * 256],
                  val)} } : TRUE

\* WaveChannel::wave_ram_write
WaveRamWrite(ch, addr, val) ==
    IF ch.enabled THEN ch
    ELSE [ch EXCEPT !.wave_ram[addr - 65328] = val]

\* WaveChannel::wave_ram_read
WaveRamRead(ch, addr) ==
    IF ~ch.enabled THEN ch.wave_ram[addr - 65328] ELSE ch.sample

\* WaveChannel::tick
WaveTick(ch) ==
    IF ch.period_divider > 1
    THEN [ch EXCEPT !.period_divider = ch.period_divider - 1]
    ELSE [ch EXCEPT !.period_divider = 2048 - ch.period,
                    !.position = (ch.position + 1) % 32,
                    !.sample = ch.wave_ram[((ch.position + 1) % 32) \div 2]]

\* WaveChannel::power_down
WavePowerDown(ch) ==
    CHOOSE r \in {
        [c4 EXCEPT !.power_on = FALSE] :
        c4 \in {WaveControlWrite(c3, 0) :
        c3 \in {PeriodLowWrite(c2, 0) :
        c2 \in {WaveOutputLevelWrite(c1, 0) :
        c1 \in {WaveDacEnableWrite(ch, 0)} } } } } : TRUE

\* NoiseChannel::new
NoiseNew ==
    [power_on |-> FALSE, enabled |-> FALSE, dac_on |-> FALSE,
     length_counter |-> LengthCounterNew, envelope |-> EnvelopeNew,
     clock_shift |-> 0, lfsr_width |-> FALSE, lfsr |-> 0,
     clock_divider |-> 0, timer |-> 0]

\* NoiseChannel::trigger
NoiseTrigger(ch) ==
    CHOOSE r \in {
        [c1 EXCEPT !.envelope.counter = c1.envelope.period,
                   !.envelope.volume = c1.envelope.init_vol,
                   !.lfsr = 2047] :
        c1 \in {TriggerLength(ch, 64)} } : TRUE

\* the shift of the LFSR in NoiseChannel::tick: bit 0 xor bit 1 enters at
\* bit 14, and at bit 6 too when lfsr_width is set
LfsrShift(lfsr, lfsr_width) ==
    LET xor_result == ((lfsr % 2) + ((lfsr \div 2) % 2)) % 2
        sh == lfsr \div 2
        l1 == IF (sh \div 16384) % 2 = 1 THEN sh ELSE sh + xor_result * 16384
    IN  IF lfsr_width
        THEN l1 - ((l1 \div 64) % 2) * 64 + xor_result * 64
        ELSE l1

\* NoiseChannel::tick
NoiseTick(ch) ==
    IF ch.timer > 1 THEN [ch EXCEPT !.timer = ch.timer - 1]
    ELSE [ch EXCEPT !.timer = ch.clock_divider * (2 ^ ch.clock_shift),
                    !.lfsr = LfsrShift(ch.lfsr, ch.lfsr_width)]

\* NoiseChannel::length_timer (NR41)
NoiseLengthTimer(ch, val) ==
    [ch EXCEPT !.length_counter = LengthSet(@, 64 - (val % 64))]

\* NoiseChannel::randomness_write (NR43)
NoiseRandomnessWrite(ch, val) ==
    IF ~ch.power_on THEN ch
    ELSE [ch EXCEPT !.clock_shift = val \div 16,
                    !.lfsr_width = ((val \div 8) % 2 = 1),
                    !.clock_divider = IF val % 8 = 0 THEN 8
                                      ELSE 16 * (val % 8)]

\* NoiseChannel::randomness_read
NoiseRandomnessRead(ch) ==
    ch.clock_shift * 16 + (IF ch.lfsr_width THEN 8 ELSE 0)
        + (ch.clock_divider \div 16)

\* NoiseChannel::control_write (NR44)
NoiseControlWrite(ch, val) ==
    IF ~ch.power_on THEN ch
    ELSE CHOOSE r \in {
        IF val >= 128 THEN NoiseTrigger(c1) ELSE c1 :
        c1 \in {ControlLength(ch, val)} } : TRUE

\* NoiseChannel::power_down
NoisePowerDown(ch) ==
    CHOOSE r \in {
        [c3 EXCEPT !.power_on = FALSE] :
        c3 \in {NoiseControlWrite(c2, 0) :
        c2 \in {NoiseRandomnessWrite(c1, 0) :
        c1 \in {EnvelopeWrite(ch, 0)} } } } : TRUE

\* Apu::new
ApuNew ==
    [square1 |-> SquareNew(TRUE), square2 |-> SquareNew(FALSE),
     wave |-> WaveNew, noise |-> NoiseNew,
     frame_seq_cycles |-> 0, frame |-> 0, output_cycles |-> 0,
     audio_on |-> FALSE, sound_panning |-> 0, volume |-> 0]

\* Apu::master_control_write (NR52)
MasterControlWrite(p, val) ==
    IF val < 128
    THEN \* Powering Off
         [p EXCEPT !.audio_on = FALSE,
                   !.square1 = SquarePowerDown(p.square1),
                   !.square2 = SquarePowerDown(p.square2),
                   !.wave = WavePowerDown(p.wave),
                   !.noise = NoisePowerDown(p.noise),
                   !.sound_panning = 0, !.volume = 0]
    ELSE IF p.audio_on THEN p
    ELSE \* Powering On
         [p EXCEPT !.audio_on = TRUE, !.frame = 7,
                   !.square1.duty_step = 0, !.square2.duty_step = 0,
                   !.wave.position = 0,
                   !.square1.power_on = TRUE, !.square2.power_on = TRUE,
                   !.wave.power_on = TRUE, !.noise.power_on = TRUE]

\* Apu::master_control_read
MasterControlRead(p) ==
    (IF p.audio_on THEN 128 ELSE 0) + (IF p.noise.enabled THEN 8 ELSE 0)
        + (IF p.wave.enabled THEN 4 ELSE 0)
        + (IF p.square2.enabled THEN 2 ELSE 0)
        + (IF p.square1.enabled THEN 1 ELSE 0) + 112

\* the frame step f with the length counters clocked at every step
FrameClockEveryStep(p, f) ==
    LET nfc == (f % 2 = 0)
        Chan(ch) == [LenCtrTick(ch)
                     EXCEPT !.length_counter.next_frame_no_clock = nfc]
        Env(ch) == IF f = 7
                   THEN [ch EXCEPT !.envelope = EnvelopeTick(ch.envelope)]
                   ELSE ch
    IN  [p EXCEPT !.frame = f,
                  !.square1 = Chan(Env(IF f \in {2, 6} THEN SweepTick(@)
                                       ELSE @)),
                  !.square2 = Chan(Env(@)),
                  !.wave = Chan(@),
                  !.noise = Chan(Env(@))]

\* the clocks of the frame step f: sweep and lengths at 2 and 6, lengths at
\* 0 and 4, envelopes at 7, and next_frame_no_clock set on the even steps
FrameClock(p, f) ==
    LET len == f \in {0, 2, 4, 6}
        nfc == (f % 2 = 0)
        Chan(ch) == [(IF len THEN LenCtrTick(ch) ELSE ch)
                     EXCEPT !.length_counter.next_frame_no_clock = nfc]
        Env(ch) == IF f = 7
                   THEN [ch EXCEPT !.envelope = EnvelopeTick(ch.envelope)]
                   ELSE ch
    IN  [p EXCEPT !.frame = f,
                  !.square1 = Chan(Env(IF f \in {2, 6} THEN SweepTick(@)
                                       ELSE @)),
                  !.square2 = Chan(Env(@)),
                  !.wave = Chan(@),
                  !.noise = Chan(Env(@))]

\* Apu::frame_cycle
FrameCycle(p) ==
    IF p.frame_seq_cycles + 1 # 2047
    THEN [p EXCEPT !.frame_seq_cycles = p.frame_seq_cycles + 1]
    ELSE FrameClock([p EXCEPT !.frame_seq_cycles = 0], (p.frame + 1) % 8)

\* Apu::tick, without the amplitude it returns every 23rd call
ApuTick(p) ==
    CHOOSE r \in {
        [p1 EXCEPT !.output_cycles = (p1.output_cycles + 1) % 23] :
        p1 \in {FrameCycle(
            [p EXCEPT !.square1 = SquareTick(@), !.square2 = SquareTick(@),
                      !.wave = WaveTick(WaveTick(@)),
                      !.noise = NoiseTick(@)])} } : TRUE

\* for _ in 0..cycles { self.apu.tick() } of Bus::tick: the n calls are
\* made as the first half of them followed by the rest
RECURSIVE ApuTicks(_, _)
ApuTicks(p, n) ==
    IF n = 0 THEN p
    ELSE IF n = 1 THEN ApuTick(p)
    ELSE CHOOSE r \in {ApuTicks(p1, n - (n \div 2)) :
                       p1 \in {ApuTicks(p, n \div 2)}} : TRUE

RECURSIVE ApuRun(_, _, _)
\* the APU after k calls of Bus::tick(n)
ApuRun(p, k, n) ==
    IF k = 0 THEN p
    ELSE IF k = 1 THEN ApuTicks(p, n)
    ELSE CHOOSE r \in {ApuRun(p1, k - (k \div 2), n) :
                       p1 \in {ApuRun(p, k \div 2, n)}} : TRUE

\* the APU arms of Bus::mem_read: FF10-FF3F
ApuRead(p, addr) ==
    CASE addr = 65296 -> SquareSweepRead(p.square1)
      [] addr = 65297 -> SquareLengthTimerRead(p.square1)
      [] addr = 65298 -> EnvelopeRead(p.square1.envelope)
      [] addr = 65300 -> ControlRead(p.square1)
      [] addr = 65302 -> SquareLengthTimerRead(p.square2)
      [] addr = 65303 -> EnvelopeRead(p.square2.envelope)
      [] addr = 65305 -> ControlRead(p.square2)
      [] addr = 65306 -> WaveDacEnableRead(p.wave)
      [] addr = 65308 -> WaveOutputLevelRead(p.wave)
      [] addr = 65310 -> ControlRead(p.wave)
      [] addr = 65313 -> EnvelopeRead(p.noise.envelope)
      [] addr = 65314 -> NoiseRandomnessRead(p.noise)
      [] addr = 65315 -> ControlRead(p.noise)
      [] addr = 65316 -> p.volume
      [] addr = 65317 -> p.sound_panning
      [] addr = 65318 -> MasterControlRead(p)
      [] addr \in 65328 .. 65343 -> WaveRamRead(p.wave, addr)
      \* period low, the unused and the write-only registers
      [] OTHER -> 255

\* the APU arms of Bus::mem_write: FF10-FF3F
ApuWrite(p, addr, val) ==
    CASE addr = 65296 -> [p EXCEPT !.square1 = SquareSweepWrite(@, val)]
      [] addr = 65297 -> [p EXCEPT !.square1 = SquareLengthTimerWrite(@, val)]
      [] addr = 65298 -> [p EXCEPT !.square1 = EnvelopeWrite(@, val)]
      [] addr = 65299 -> [p EXCEPT !.square1 = PeriodLowWrite(@, val)]
      [] addr = 65300 -> [p EXCEPT !.square1 = SquareControlWrite(@, val)]
      [] addr = 65302 -> [p EXCEPT !.square2 = SquareLengthTimerWrite(@, val)]
      [] addr = 65303 -> [p EXCEPT !.square2 = EnvelopeWrite(@, val)]
      [] addr = 65304 -> [p EXCEPT !.square2 = PeriodLowWrite(@, val)]
      [] addr = 65305 -> [p EXCEPT !.square2 = SquareControlWrite(@, val)]
      [] addr = 65306 -> [p EXCEPT !.wave = WaveDacEnableWrite(@, val)]
      [] addr = 65307 -> [p EXCEPT !.wave = WaveLengthTimer(@, val)]
      [] addr = 65308 -> [p EXCEPT !.wave = WaveOutputLevelWrite(@, val)]
      [] addr = 65309 -> [p EXCEPT !.wave = PeriodLowWrite(@, val)]
      [] addr = 65310 -> [p EXCEPT !.wave = WaveControlWrite(@, val)]
      [] addr = 65312 -> [p EXCEPT !.noise = NoiseLengthTimer(@, val)]
      [] addr = 65313 -> [p EXCEPT !.noise = EnvelopeWrite(@, val)]
      [] addr = 65314 -> [p EXCEPT !.noise = NoiseRandomnessWrite(@, val)]
      [] addr = 65315 -> [p EXCEPT !.noise = NoiseControlWrite(@, val)]
      [] addr = 65316 -> IF p.audio_on THEN [p EXCEPT !.volume = val] ELSE p
      [] addr = 65317 -> IF p.audio_on THEN [p EXCEPT !.sound_panning = val]
                         ELSE p
      [] addr = 65318 -> MasterControlWrite(p, val)
      [] addr \in 65328 .. 65343 ->
            [p EXCEPT !.wave = WaveRamWrite(@, addr, val)]
      \* FF15, FF1F, FF27-FF2F: not used
      [] OTHER -> p

----------------------------------------------------------------------------
(* Cartridge: the mappers Mbc0, Mbc1 and Mbc3 as records with a kind.  The
   ROM image is as long as its header says and every byte of it holds the
   number of its 16 KiB bank, so a read tells the bank it came from. *)

KIB == 1024
MIB == 1048576

\* cartridge_rom[index] of the image
RomByte(index) == (index \div (16 * KIB)) % 256

\* Mbc0::new
Mbc0New(rom_size, ram_size) ==
    [kind |-> "Mbc0", rom_size |-> rom_size, ram_size |-> ram_size,
     cartridge_ram |-> ZeroArray]

\* Mbc1::new
Mbc1New(rom_size, ram_size) ==
    [kind |-> "Mbc1", rom_size |-> rom_size, ram_size |-> ram_size,
     rom_bank |-> 1, ram_bank |-> 0,
     max_bank |-> (rom_size \div (16 * KIB)) % 256,
     banking_mode |-> FALSE, ram_enabled |-> FALSE,
     cartridge_ram |-> ZeroArray]

\* Mbc3::new
Mbc3New(rom_size, ram_size) ==
    [kind |-> "Mbc3", rom_size |-> rom_size, ram_size |-> ram_size,
     ram_enabled |-> FALSE, rom_bank |-> 1, bank_or_register |-> 0,
     rtc_prior_val |-> FALSE, rtc_s |-> 0, rtc_m |-> 0, rtc_h |-> 0,
     rtc_dl |-> 0, rtc_day_upper |-> FALSE, rtc_halt |-> FALSE,
     rtc_carry |-> FALSE, cartridge_ram |-> ZeroArray]

\* the index into cartridge_rom of Mapper::read_bank0(addr)
ReadBank0Index(m, addr) ==
    IF m.kind = "Mbc1" /\ m.banking_mode /\ m.rom_size > MIB
    THEN m.ram_bank * 262144 + addr
    ELSE addr

\* the index into cartridge_rom of Mapper::read_bankn(addr)
ReadBankNIndex(m, addr) ==
    CASE m.kind = "Mbc0" -> addr
      [] m.kind = "Mbc1" ->
            (addr - 16384) + m.rom_bank * 16384
                + (IF m.rom_size > MIB THEN m.ram_bank * 262144 ELSE 0)
      [] m.kind = "Mbc3" -> (addr - 16384) + m.rom_bank * 16384

\* the index of a ROM read at addr in 0000-7FFF
RomIndex(m, addr) ==
    IF addr < 16384 THEN ReadBank0Index(m, addr) ELSE ReadBankNIndex(m, addr)

\* Mbc1::write_bank0.  2 ^ 32 is 2 xor 32 = 34; ram_bank << 5 keeps the low
\* eight bits
Mbc1WriteBank0(m, addr, val) ==
    IF addr <= 8191
    THEN [m EXCEPT !.ram_enabled = (m.ram_size > 0 /\ val % 16 = 10)]
    ELSE LET masked_bank == IF val % 32 = 0 THEN 1 ELSE val % 32
         IN  IF m.max_bank > 34
             THEN [m EXCEPT !.rom_bank = ((m.ram_bank * 32) % 256) + masked_bank]
             ELSE [m EXCEPT !.rom_bank = BitAnd(masked_bank, m.max_bank - 1)]

\* Mbc3::write_bank0
Mbc3WriteBank0(m, addr, val) ==
    IF addr <= 8191
    THEN [m EXCEPT !.ram_enabled = (m.ram_size > 0 /\ val % 16 = 10)]
    ELSE [m EXCEPT !.rom_bank = IF val = 0 THEN 1 ELSE val % 128]

\* Mapper::write_bank0(addr, val), addr in 0000-3FFF
WriteBank0(m, addr, val) ==
    CASE m.kind = "Mbc0" -> m
      [] m.kind = "Mbc1" -> Mbc1WriteBank0(m, addr, val)
      [] m.kind = "Mbc3" -> Mbc3WriteBank0(m, addr, val)

\* Mbc1::write_bankn
Mbc1WriteBankN(m, addr, val) ==
    IF addr <= 24575
    THEN [m EXCEPT !.ram_bank = BitAnd(val, 17)]
    ELSE [m EXCEPT !.banking_mode = (val % 2 = 1)]

\* a latch taken on every write of 1
Mbc3LatchUnarmed(m, val) == val = 1

\* Mbc3::write_bankn, the test that takes the latch
Mbc3Latch(m, val) == m.rtc_prior_val /\ val = 1

\* a mapper that reads the clock on every write to 6000-7FFF
Mbc3WriteBankNEager(m, addr, val, now) ==
    IF addr <= 24575
    THEN IF val <= 12 THEN [m EXCEPT !.bank_or_register = val] ELSE m
    ELSE [m EXCEPT !.rtc_prior_val = (val = 0),
                   !.rtc_s = now.second, !.rtc_m = now.minute,
                   !.rtc_h = now.hour, !.rtc_dl = now.ordinal0 % 256,
                   !.rtc_day_upper = (BitAnd(now.ordinal0, 240) > 0)]

\* Mbc3::write_bankn; now is what Local::now() returns
Mbc3WriteBankN(m, addr, val, now) ==
    IF addr <= 24575
    THEN IF val <= 12 THEN [m EXCEPT !.bank_or_register = val] ELSE m
    ELSE IF val = 0 THEN [m EXCEPT !.rtc_prior_val = TRUE]
    ELSE IF Mbc3Latch(m, val)
    THEN [m EXCEPT !.rtc_prior_val = FALSE,
                   !.rtc_s = now.second, !.rtc_m = now.minute,
                   !.rtc_h = now.hour, !.rtc_dl = now.ordinal0 % 256,
                   !.rtc_day_upper = (BitAnd(now.ordinal0, 240) > 0)]
    ELSE [m EXCEPT !.rtc_prior_val = FALSE]

\* Mapper::write_bankn(addr, val), addr in 4000-7FFF
WriteBankN(m, addr, val, now) ==
    CASE m.kind = "Mbc0" -> m
      [] m.kind = "Mbc1" -> Mbc1WriteBankN(m, addr, val)
      [] m.kind = "Mbc3" -> Mbc3WriteBankN(m, addr, val, now)

\* the index into cartridge_ram of Mapper::ram_read(addr) and of the store of
\* Mapper::ram_write(addr, _); the Mbc1 bank offset needs 512 KiB of RAM,
\* which no header gives
RamIndex(m, addr) == IF m.kind = "Mbc0" THEN addr ELSE addr - 40960

\* the Mbc3 accesses that go to the RTC registers
RtcSelected(m) == m.kind = "Mbc3" /\ m.bank_or_register >= 8

\* Mapper::ram_read indexes outside cartridge_ram
RamReadPanics(m, addr) == ~RtcSelected(m) /\ RamIndex(m, addr) >= m.ram_size

\* Mapper::ram_read(addr), addr in A000-BFFF
RamRead(m, addr) ==
    IF ~RtcSelected(m) THEN Load(m.cartridge_ram, RamIndex(m, addr))
    ELSE CASE m.bank_or_register = 8 -> m.rtc_s
           [] m.bank_or_register = 9 -> m.rtc_m
           [] m.bank_or_register = 10 -> m.rtc_h
           [] m.bank_or_register = 11 -> m.rtc_dl
           [] m.bank_or_register = 12 ->
                (IF m.rtc_carry THEN 128 ELSE 0)
                    + (IF m.rtc_halt THEN 64 ELSE 0)
                    + (IF m.rtc_day_upper THEN 1 ELSE 0)

\* Mapper::ram_write indexes outside cartridge_ram: Mbc1 returns first
RamWritePanics(m, addr) ==
    m.kind # "Mbc1" /\ ~RtcSelected(m) /\ RamIndex(m, addr) >= m.ram_size

\* Mapper::ram_write(addr, val), addr in A000-BFFF
RamWrite(m, addr, val) ==
    IF RtcSelected(m)
    THEN CASE m.bank_or_register = 8 -> [m EXCEPT !.rtc_s = val]
           [] m.bank_or_register = 9 -> [m EXCEPT !.rtc_m = val]
           [] m.bank_or_register = 10 -> [m EXCEPT !.rtc_h = val]
           [] m.bank_or_register = 11 -> [m EXCEPT !.rtc_dl = val]
           [] m.bank_or_register = 12 ->
                [m EXCEPT !.rtc_carry = (val >= 128),
                          !.rtc_halt = ((val \div 64) % 2 = 1),
                          !.rtc_day_upper = (val % 2 = 1)]
    ELSE IF m.kind = "Mbc1" /\ RamIndex(m, addr) >= m.ram_size THEN m
    ELSE [m EXCEPT !.cartridge_ram = Store(@, RamIndex(m, addr), val)]

\* Bus::mem_read(addr) aborts inside the mapper: an index outside the image
\* or outside cartridge_ram
CartReadPanics(m, addr) ==
    \/ addr < 32768 /\ RomIndex(m, addr) >= m.rom_size
    \/ addr \in 40960 .. 49151 /\ RamReadPanics(m, addr)

\* Bus::mem_write(addr, _) aborts inside the mapper
CartWritePanics(m, addr) == addr \in 40960 .. 49151 /\ RamWritePanics(m, addr)

----------------------------------------------------------------------------
(* Bus *)

vblank == 1
lcd == 2
timer == 4
serial == 8
joypad == 16

\* the Interrupt bits of a timer, LCD, VBlank and joypad request
Requested(ti, lc, vb, jo) ==
    (IF vb THEN vblank ELSE 0) + (IF lc THEN lcd ELSE 0)
    + (IF ti THEN timer ELSE 0) + (IF jo THEN joypad ELSE 0)

HramAddrs == 65408 .. 65534      \* 0xFF80 ..= 0xFFFE
VramAddrs == 32768 .. 40959      \* 0x8000 ..= 0x9FFF
CpuRamAddrs == 49152 .. 57343    \* 0xC000 ..= 0xDFFF
EchoAddrs == 57344 .. 65023      \* 0xE000 ..= 0xFDFF
OamAddrs == 65024 .. 65183       \* 0xFE00 ..= 0xFE9F
UnusableAddrs == 65184 .. 65279  \* 0xFEA0 ..= 0xFEFF
IoAddrs == 65280 .. 65407        \* 0xFF00 ..= 0xFF7F
OAM_LEN == 160                   \* [u8; 0xA0]

\* the I/O addresses that have an arm of their own in the match of
\* Bus::mem_read: FF00, FF04-FF07, FF0F, FF10-FF3F, FF40, FF41, FF44, FF45,
\* FF4D (FF01 and FF02 have one too, which is todo!())
ReadArms ==
    {65280, 65295, 65344, 65345, 65348, 65349, 65357}
        \cup (65284 .. 65287) \cup (65296 .. 65343)

\* the addresses on which Bus::mem_read panics: the echo arm, the serial
\* todo!() and the catch-all arm
ReadPanics(addr) ==
    \/ addr \in EchoAddrs
    \/ addr \in {65281, 65282}
    \/ addr \in IoAddrs /\ addr \notin ReadArms

\* the I/O addresses that have an arm of their own in the match of
\* Bus::mem_write: FF00-FF02, FF04-FF07, FF0F, FF10-FF3F, FF40-FF43,
\* FF45-FF4B, FF4D, FF68, FF69, FF78-FF7F (FF44, FF6A and FF6B have one too,
\* which panics)
WriteArms ==
    {65280, 65281, 65282, 65295, 65357, 65384, 65385}
        \cup (65284 .. 65287) \cup (65296 .. 65343) \cup (65344 .. 65347)
        \cup (65349 .. 65355) \cup (65400 .. 65407)

\* the writes on which Bus::mem_write panics: the echo arm, the LY arm, the
\* assert of the DMA arm, the todo!() of FF6A | FF6B and the catch-all arm
WritePanics(addr, data) ==
    \/ addr \in EchoAddrs
    \/ addr = 65348
    \/ addr = 65350 /\ data > 223
    \/ addr \in IoAddrs /\ addr \notin WriteArms

\* the addresses whose routing in Bus::mem_read / Bus::mem_write is modelled
Mapped(addr) ==
    \/ addr \in HramAddrs
    \/ addr \in {65284, 65285, 65286, 65287, 65295, 65344, 65345, 65349, 65535}
    \/ addr \in VramAddrs \/ addr \in CpuRamAddrs
    \/ addr \in OamAddrs \/ addr \in UnusableAddrs
    \/ addr = 65357
Readable(addr) == Mapped(addr) \/ addr = 65348
Writable(addr) == Mapped(addr) \/ addr \in {65281, 65282, 65350}

\* Bus::mem_read
MemRead(s, addr) ==
    CASE addr \in HramAddrs -> s.hram[addr - 65408]
      [] addr < 32768 -> RomByte(RomIndex(s.cart, addr))
      [] addr \in 40960 .. 49151 -> RamRead(s.cart, addr)
      [] addr \in VramAddrs -> Load(s.ppu.vram, addr - 32768)
      [] addr \in CpuRamAddrs -> Load(s.cpu_ram, addr % 8192)
      [] addr \in OamAddrs -> Load(s.ppu.oam, addr - 65024)
      [] addr \in UnusableAddrs -> 0
      [] addr = 65357 -> 0
      [] addr = 65284 -> s.timer.divider_counter
      [] addr = 65285 -> s.timer.timer_counter
      [] addr = 65286 -> s.timer.timer_modulo
      [] addr = 65287 -> TacRead(s.timer)
      [] addr = 65295 -> s.interrupt_flag
      [] addr \in 65296 .. 65343 -> ApuRead(s.apu, addr)
      [] addr = 65344 -> s.ppu.control
      [] addr = 65345 -> ReadStatus(s.ppu)
      [] addr = 65348 -> s.ppu.scanline
      [] addr = 65349 -> s.ppu.lyc
      [] addr = 65535 -> s.interrupt_enable

\* a copy that stops one byte short of the page
DmaPageShort(s, data) ==
    [i \in 0 .. OAM_LEN - 1 |->
        IF i < OAM_LEN - 1 THEN MemRead(s, data * 256 + i) ELSE 0]

\* the page array Bus::mem_write fills for a write of data to 0xFF46
DmaPage(s, data) == [i \in 0 .. OAM_LEN - 1 |-> MemRead(s, data * 256 + i)]

\* Ppu::oam_dma
OamDma(p, page) == [p EXCEPT !.oam = Pack(page)]

\* Bus::mem_write
MemWrite(s, addr, data) ==
    CASE addr \in HramAddrs -> [s EXCEPT !.hram[addr - 65408] = data]
      [] addr < 16384 -> [s EXCEPT !.cart = WriteBank0(@, addr, data)]
      [] addr \in 16384 .. 32767 ->
            [s EXCEPT !.cart = WriteBankN(@, addr, data, s.host_clock)]
      [] addr \in 40960 .. 49151 ->
            [s EXCEPT !.cart = RamWrite(@, addr, data)]
      [] addr \in VramAddrs ->
            [s EXCEPT !.ppu.vram = Store(s.ppu.vram, addr - 32768, data)]
      [] addr \in CpuRamAddrs ->
            [s EXCEPT !.cpu_ram = Store(s.cpu_ram, addr % 8192, data)]
      [] addr \in OamAddrs ->
            [s EXCEPT !.ppu.oam = Store(s.ppu.oam, addr - 65024, data)]
      [] addr \in UnusableAddrs -> s
      [] addr = 65350 -> [s EXCEPT !.ppu = OamDma(s.ppu, DmaPage(s, data))]
      [] addr = 65357 -> s
      [] addr \in {65281, 65282} -> s
      [] addr = 65284 -> [s EXCEPT !.timer.divider_counter = 0]
      [] addr = 65285 -> [s EXCEPT !.timer.timer_counter = data]
      [] addr = 65286 -> [s EXCEPT !.timer.timer_modulo = data]
      [] addr = 65287 -> [s EXCEPT !.timer = TacWrite(s.timer, data)]
      [] addr = 65295 -> [s EXCEPT !.interrupt_flag = BitAnd(data, 31)]
      [] addr \in 65296 .. 65343 ->
            [s EXCEPT !.apu = ApuWrite(s.apu, addr, data)]
      [] addr = 65344 -> [s EXCEPT !.ppu = WriteToCtrl(s.ppu, data)]
      [] addr = 65345 -> [s EXCEPT !.ppu = WriteStatus(s.ppu, data)]
      [] addr = 65349 -> [s EXCEPT !.ppu.lyc = data]
      [] addr = 65535 -> [s EXCEPT !.interrupt_enable = BitAnd(data, 31)]

\* u16::from_le_bytes([lo, hi]), as Bus::mem_read_u16 calls it on the bytes
\* at addr and addr + 1
FromLeBytes(b0, b1) == Word(b1, b0)

\* Bus::mem_read_u16
MemReadU16(s, addr) == Word(MemRead(s, addr + 1), MemRead(s, addr))

\* Bus::tick, without the audio buffer and the scanline rendering, which
\* the rest of the machine never reads
BusTick(s, n) ==
    LET tt == TimerTick(s.timer, n)
        pt == PpuTick(s.ppu, n)
        f1 == IF tt.interrupt THEN Insert(s.interrupt_flag, timer)
              ELSE s.interrupt_flag
        f2 == IF pt.lcd THEN Insert(f1, lcd) ELSE f1
        f3 == IF pt.vblank THEN Insert(f2, vblank) ELSE f2
        f4 == IF s.joypad_interrupt THEN Insert(f3, joypad) ELSE f3
    IN  [bus |-> [s EXCEPT !.timer = tt.timer, !.ppu = pt.ppu,
                           !.apu = ApuTicks(s.apu, n),
                           !.interrupt_flag = f4,
                           !.joypad_interrupt = FALSE],
         ret |-> FrameComplete(pt.display),
         display |-> pt.display, lcd |-> pt.lcd, vblank |-> pt.vblank,
         timer |-> tt.interrupt, joypad |-> s.joypad_interrupt]

----------------------------------------------------------------------------
(* Opcode table: CPU_OP_CODES, the entries of the opcodes the model runs *)

NoCond == 4

\* <<bytes, cycles, Cond(k) of reg1>> as inserted by opcodes.rs
OpcodeEntry(op) ==
    CASE op = 0   -> <<1, 1, NoCond>>     \* NOP
      [] op = 1   -> <<3, 3, NoCond>>     \* LD BC, imm16
      [] op = 6   -> <<2, 2, NoCond>>     \* LD B, imm8
      [] op = 8   -> <<3, 5, NoCond>>     \* LD [imm16], SP
      [] op = 18  -> <<1, 2, NoCond>>     \* LD [DE], A
      [] op = 26  -> <<1, 2, NoCond>>     \* LD A, [DE]
      [] op = 34  -> <<1, 2, NoCond>>     \* LD [HL+], A
      [] op = 42  -> <<1, 2, NoCond>>     \* LD A, [HL+]
      [] op = 50  -> <<1, 2, NoCond>>     \* LD [HL-], A
      [] op = 58  -> <<1, 2, NoCond>>     \* LD A, [HL-]
      [] op = 54  -> <<2, 3, NoCond>>     \* LD [HL], imm8
      [] op = 79  -> <<1, 1, NoCond>>     \* LD C, A
      [] op = 112 -> <<1, 2, NoCond>>     \* LD [HL], B
      [] op = 120 -> <<1, 1, NoCond>>     \* LD A, B
      [] op = 126 -> <<1, 2, NoCond>>     \* LD A, [HL]
      [] op = 234 -> <<3, 4, NoCond>>     \* LD [imm16], A
      [] op = 249 -> <<1, 2, NoCond>>     \* LD SP, HL
      [] op = 250 -> <<3, 4, NoCond>>     \* LD A, [imm16]
      [] op = 16  -> <<2, 0, NoCond>>     \* STOP
      [] op = 17  -> <<3, 3, NoCond>>     \* LD DE, imm16
      [] op = 33  -> <<3, 3, NoCond>>     \* LD HL, imm16
      [] op = 49  -> <<3, 3, NoCond>>     \* LD SP, imm16
      [] op = 24  -> <<2, 3, NoCond>>     \* JR imm8
      [] op = 32  -> <<2, 2, 0>>          \* JR NZ
      [] op = 40  -> <<2, 2, 1>>          \* JR Z
      [] op = 48  -> <<2, 2, 2>>          \* JR NC
      [] op = 56  -> <<2, 2, 3>>          \* JR C
      [] op = 39  -> <<1, 1, NoCond>>     \* DAA
      [] op = 55  -> <<1, 1, NoCond>>     \* SCF
      [] op = 60  -> <<1, 1, NoCond>>     \* INC A
      [] op = 62  -> <<2, 2, NoCond>>     \* LD A, imm8
      [] op = 118 -> <<1, 0, NoCond>>     \* HALT
      [] op = 128 -> <<1, 1, NoCond>>     \* ADD A, B
      [] op = 136 -> <<1, 1, NoCond>>     \* ADC A, B
      [] op = 144 -> <<1, 1, NoCond>>     \* SUB A, B
      [] op = 152 -> <<1, 1, NoCond>>     \* SBC A, B
      [] op = 184 -> <<1, 1, NoCond>>     \* CP A, B
      [] op = 175 -> <<1, 1, NoCond>>     \* XOR A, A
      [] op = 192 -> <<1, 2, 0>>          \* RET NZ
      [] op = 200 -> <<1, 2, 1>>          \* RET Z
      [] op = 208 -> <<1, 2, 2>>          \* RET NC
      [] op = 216 -> <<1, 2, 3>>          \* RET C
      [] op = 193 -> <<1, 3, NoCond>>     \* POP BC
      [] op = 209 -> <<1, 3, NoCond>>     \* POP DE
      [] op = 225 -> <<1, 3, NoCond>>     \* POP HL
      [] op = 241 -> <<1, 3, NoCond>>     \* POP AF
      [] op = 197 -> <<1, 4, NoCond>>     \* PUSH BC
      [] op = 213 -> <<1, 4, NoCond>>     \* PUSH DE
      [] op = 229 -> <<1, 4, NoCond>>     \* PUSH HL
      [] op = 245 -> <<1, 4, NoCond>>     \* PUSH AF
      [] op = 194 -> <<3, 3, 0>>          \* JP NZ
      [] op = 202 -> <<3, 3, 1>>          \* JP Z
      [] op = 210 -> <<3, 3, 2>>          \* JP NC
      [] op = 218 -> <<3, 3, 2>>          \* JP C, inserted with Cond(2)
      [] op = 195 -> <<3, 4, NoCond>>     \* JP imm16
      [] op = 196 -> <<3, 3, 0>>          \* CALL NZ
      [] op = 204 -> <<3, 3, 1>>          \* CALL Z
      [] op = 212 -> <<3, 3, 2>>          \* CALL NC
      [] op = 220 -> <<3, 3, 3>>          \* CALL C
      [] op = 205 -> <<3, 6, NoCond>>     \* CALL imm16
      [] op = 201 -> <<1, 4, NoCond>>     \* RET
      [] op = 217 -> <<1, 4, NoCond>>     \* RETI
      [] op = 224 -> <<2, 3, NoCond>>     \* LDH [imm8], A
      [] op = 232 -> <<2, 4, NoCond>>     \* ADD SP, imm8
      [] op = 248 -> <<2, 3, NoCond>>     \* LD HL, SP + imm8
      [] op = 243 -> <<1, 1, NoCond>>     \* DI
      [] op = 251 -> <<1, 1, NoCond>>     \* EI
      [] op = 9   -> <<2, 1, NoCond>>     \* ADD HL, BC
      [] op = 25  -> <<2, 1, NoCond>>     \* ADD HL, DE
      [] op = 41  -> <<2, 1, NoCond>>     \* ADD HL, HL
      [] op = 57  -> <<2, 1, NoCond>>     \* ADD HL, SP
      [] op = 47  -> <<2, 2, NoCond>>     \* CPL
      [] op = 160 -> <<1, 1, NoCond>>     \* AND A, B
      [] op = 230 -> <<2, 2, NoCond>>     \* AND A, imm8
      [] op = 176 -> <<1, 1, NoCond>>     \* OR A, B
      [] op = 246 -> <<2, 2, NoCond>>     \* OR A, imm8
      [] op = 168 -> <<1, 1, NoCond>>     \* XOR A, B
      [] op = 238 -> <<2, 2, NoCond>>     \* XOR A, imm8

TableOps == {0, 1, 16, 24, 32, 40, 48, 56, 55, 60, 62, 118, 175, 192, 200, 208,
             216, 193, 241, 197, 245, 194, 202, 210, 218, 195, 196, 204, 212,
             220, 205, 201, 217, 224, 243, 251, 17, 33, 49, 209, 225, 213,
             229, 128, 136, 144, 152, 184, 232, 248, 39, 6, 8, 18, 26, 34,
             42, 50, 58, 54, 79, 112, 120, 126, 234, 249, 250, 9, 25, 41,
             57, 47, 160, 230, 176, 246, 168, 238}

\* bytes with no entry in CPU_OP_CODES: step panics on them
MissingOps == {203, 211, 219, 221, 227, 228, 233, 235, 236, 237, 244, 252, 253}

OpBytes(op) == OpcodeEntry(op)[1]
OpCycles(op) == OpcodeEntry(op)[2]
OpCond(op) == OpcodeEntry(op)[3]

\* k of the R8(k) that the entry of ADD, ADC, SUB, SBC and CP A, B has as reg2
OpReg2(op) ==
    CASE op \in {128, 136, 144, 152, 184, 160, 176, 168} -> 0
      [] op \in {9, 25, 41, 57} -> (op - 9) \div 16     \* ADD HL, r16
      [] op \in {79, 112, 120, 126} -> op % 8       \* LD r8, r8
      [] op = 26 -> 1                               \* LD A, [DE]
      [] op = 42 -> 2                               \* LD A, [HL+]
      [] op = 58 -> 3                               \* LD A, [HL-]

\* k of the R16(k) / R16stk(k) that the entry of LD r16, POP and PUSH has
\* as reg1
OpReg1(op) ==
    CASE op \in {1, 193, 197} -> 0
      [] op \in {17, 209, 213} -> 1
      [] op \in {33, 225, 229} -> 2
      [] op \in {49, 241, 245} -> 3
      [] op \in {79, 112, 120, 126} -> (op - 64) \div 8    \* LD r8, r8
      [] op \in {6, 54} -> (op - 6) \div 8                 \* LD r8, imm8
      [] op = 18 -> 1                                      \* LD [DE], A
      [] op = 34 -> 2                                      \* LD [HL+], A
      [] op = 50 -> 3                                      \* LD [HL-], A

----------------------------------------------------------------------------
(* Cpu *)

zero == 128
subtraction == 64
half_carry == 32
carry == 16

\* Cpu::set_af
SetAf(s, value) == [s EXCEPT !.a = Hi(value), !.flags = Lo(value)]
\* Cpu::get_af / get_bc / set_bc
GetAf(s) == Word(s.a, s.flags)
GetBc(s) == Word(s.b, s.c)
SetBc(s, value) == [s EXCEPT !.c = Lo(value), !.b = Hi(value)]
GetDe(s) == Word(s.d, s.e)
SetDe(s, value) == [s EXCEPT !.e = Lo(value), !.d = Hi(value)]
GetHl(s) == Word(s.h, s.l)
SetHl(s, value) == [s EXCEPT !.l = Lo(value), !.h = Hi(value)]

\* Cpu::r8_read, for the registers
R8Read(s, reg) ==
    CASE reg = 0 -> s.b
      [] reg = 1 -> s.c
      [] reg = 2 -> s.d
      [] reg = 3 -> s.e
      [] reg = 4 -> s.h
      [] reg = 5 -> s.l
      [] reg = 6 -> MemRead(s, GetHl(s))
      [] reg = 7 -> s.a

\* Cpu::r8_write
R8Write(s, reg, value) ==
    CASE reg = 0 -> [s EXCEPT !.b = value]
      [] reg = 1 -> [s EXCEPT !.c = value]
      [] reg = 2 -> [s EXCEPT !.d = value]
      [] reg = 3 -> [s EXCEPT !.e = value]
      [] reg = 4 -> [s EXCEPT !.h = value]
      [] reg = 5 -> [s EXCEPT !.l = value]
      [] reg = 6 -> MemWrite(s, GetHl(s), value)
      [] reg = 7 -> [s EXCEPT !.a = value]

\* the address Cpu::r16mem_read / r16mem_write access: BC, DE, HL, HL
R16memAddr(s, reg) ==
    CASE reg = 0 -> GetBc(s)
      [] reg = 1 -> GetDe(s)
      [] reg \in {2, 3} -> GetHl(s)

\* self.set_hl(addr.wrapping_add(1)) of R16mem(2) and
\* self.set_hl(addr.wrapping_sub(1)) of R16mem(3), after the access
R16memAdvance(s, reg) ==
    CASE reg \in {0, 1} -> s
      [] reg = 2 -> SetHl(s, (GetHl(s) + 1) % 65536)
      [] reg = 3 -> SetHl(s, (GetHl(s) + 65535) % 65536)

\* Cpu::r16mem_read: the Cpu after it, and the byte read
R16memRead(s, reg) ==
    [cpu |-> R16memAdvance(s, reg), val |-> MemRead(s, R16memAddr(s, reg))]

\* Cpu::r16mem_write
R16memWrite(s, reg, value) ==
    R16memAdvance(MemWrite(s, R16memAddr(s, reg), value % 256), reg)

\* Cpu::r16_write
R16Write(s, reg, value) ==
    CASE reg = 0 -> SetBc(s, value)
      [] reg = 1 -> SetDe(s, value)
      [] reg = 2 -> SetHl(s, value)
      [] reg = 3 -> [s EXCEPT !.stack_pointer = value]

\* Cpu::r16_read
R16Read(s, reg) ==
    CASE reg = 0 -> GetBc(s)
      [] reg = 1 -> GetDe(s)
      [] reg = 2 -> GetHl(s)
      [] reg = 3 -> s.stack_pointer

\* Cpu::r16stk_read
R16stkRead(s, reg) ==
    CASE reg = 0 -> GetBc(s)
      [] reg = 1 -> GetDe(s)
      [] reg = 2 -> GetHl(s)
      [] reg = 3 -> GetAf(s)

\* Cpu::r16stk_write
R16stkWrite(s, reg, value) ==
    CASE reg = 0 -> SetBc(s, value)
      [] reg = 1 -> SetDe(s, value)
      [] reg = 2 -> SetHl(s, value)
      [] reg = 3 -> SetAf(s, value)

\* Cpu::push_u8_to_stack
PushU8(s, val) ==
    MemWrite([s EXCEPT !.stack_pointer = s.stack_pointer - 1],
             s.stack_pointer - 1, val)

\* a push that stores the low byte first
PushU16LowFirst(s, val) == PushU8(PushU8(s, Lo(val)), Hi(val))

\* Cpu::push_u16_to_stack
PushU16(s, val) == PushU8(PushU8(s, Hi(val)), Lo(val))

\* Cpu::pop_u16_from_stack: the value read, and the Cpu after it
PopValue(s) == MemReadU16(s, s.stack_pointer)
PopU16(s) == [s EXCEPT !.stack_pointer = (s.stack_pointer + 2) % 65536]

\* both bytes a push writes / a pop reads lie in the modelled map
CanPush(s) == Mapped(s.stack_pointer - 1) /\ Mapped(s.stack_pointer - 2)
CanPop(s) == Readable(s.stack_pointer) /\ Readable(s.stack_pointer + 1)

Pending(s, flag) ==
    Contains(s.interrupt_flag, flag) /\ Contains(s.interrupt_enable, flag)
InterruptPending(s) ==
    \E flag \in {vblank, lcd, timer, serial, joypad} : Pending(s, flag)

\* InterruptHandler serving the highest-numbered pending bit first
InterruptHandlerJoypadFirst(s, vb, lc, ti, se, jo) ==
    IF jo THEN [s EXCEPT !.interrupt_flag = Remove(s.interrupt_flag, joypad),
                         !.program_counter = 96]
    ELSE IF se THEN [s EXCEPT !.interrupt_flag = Remove(s.interrupt_flag, serial),
                              !.program_counter = 88]
    ELSE IF ti THEN [s EXCEPT !.interrupt_flag = Remove(s.interrupt_flag, timer),
                              !.program_counter = 80]
    ELSE IF lc THEN [s EXCEPT !.interrupt_flag = Remove(s.interrupt_flag, lcd),
                              !.program_counter = 72]
    ELSE IF vb THEN [s EXCEPT !.interrupt_flag = Remove(s.interrupt_flag, vblank),
                              !.program_counter = 64]
    ELSE s

\* the "Interrupt handler" chain that ends Cpu::interrupt_check; the five
\* booleans are the locals computed when the check was entered
InterruptHandler(s, vb, lc, ti, se, jo) ==
    IF vb THEN [s EXCEPT !.interrupt_flag = Remove(s.interrupt_flag, vblank),
                         !.program_counter = 64]
    ELSE IF lc THEN [s EXCEPT !.interrupt_flag = Remove(s.interrupt_flag, lcd),
                              !.program_counter = 72]
    ELSE IF ti THEN [s EXCEPT !.interrupt_flag = Remove(s.interrupt_flag, timer),
                              !.program_counter = 80]
    ELSE IF se THEN [s EXCEPT !.interrupt_flag = Remove(s.interrupt_flag, serial),
                              !.program_counter = 88]
    ELSE IF jo THEN [s EXCEPT !.interrupt_flag = Remove(s.interrupt_flag, joypad),
                              !.program_counter = 96]
    ELSE s

\* Cpu::interrupt_check
InterruptCheck(s) ==
    LET vb == Pending(s, vblank)
        lc == Pending(s, lcd)
        ti == Pending(s, timer)
        se == Pending(s, serial)
        jo == Pending(s, joypad)
        interrupt_pending == vb \/ lc \/ ti \/ se \/ jo
    IN  CASE ~interrupt_pending -> InterruptHandler(s, vb, lc, ti, se, jo)
          [] interrupt_pending /\ ~s.halted /\ ~s.ime -> s
          [] interrupt_pending /\ s.halted /\ s.ime ->
                InterruptHandler(
                    PushU16([s EXCEPT !.ime = FALSE, !.halted = FALSE],
                            s.program_counter + 1),
                    vb, lc, ti, se, jo)
          [] interrupt_pending /\ ~s.halted /\ s.ime ->
                InterruptHandler(
                    PushU16([s EXCEPT !.ime = FALSE], s.program_counter),
                    vb, lc, ti, se, jo)
          [] interrupt_pending /\ s.halted /\ ~s.ime ->
                [s EXCEPT !.halted = FALSE,
                          !.program_counter = s.program_counter + 1]

\* the bits 7 .. 4 that flags.set(zero, z), set(subtraction, n),
\* set(half_carry, hf) and set(carry, cf) leave
FlagByte(z, n, hf, cf) ==
    (IF z THEN zero ELSE 0) + (IF n THEN subtraction ELSE 0)
    + (IF hf THEN half_carry ELSE 0) + (IF cf THEN carry ELSE 0)

\* (carry && self.flags.contains(CpuFlag::carry)) as u8
CarryBit(f, with_carry) == IF with_carry THEN (f \div carry) % 2 ELSE 0

\* an add_u8 whose half carry leaves the carry-in out
AddU8NoCarryInHalf(s, arg1, arg2, with_carry) ==
    LET cin == CarryBit(s.flags, with_carry)
        s1 == (arg1 + arg2) % 256
        sum == (s1 + cin) % 256
    IN  [cpu |-> [s EXCEPT !.flags = (s.flags % 16)
                    + FlagByte(sum = 0, FALSE,
                               (arg1 % 16) + (arg2 % 16) >= 16,
                               arg1 + arg2 > 255 \/ s1 + cin > 255)],
         val |-> sum]

\* Cpu::add_u8: the Cpu with its new flags, and the sum.  The four flag
\* updates assign bits 7 .. 4 and keep bits 3 .. 0.
AddU8(s, arg1, arg2, with_carry) ==
    LET cin == CarryBit(s.flags, with_carry)
        s1 == (arg1 + arg2) % 256                \* overflowing_add
        sum == (s1 + cin) % 256
        hc == (arg1 % 16) + (arg2 % 16) + cin
    IN  [cpu |-> [s EXCEPT !.flags = (s.flags % 16)
                    + FlagByte(sum = 0, FALSE, (hc \div 16) % 16 > 0,
                               arg1 + arg2 > 255 \/ s1 + cin > 255)],
         val |-> sum]

\* Cpu::add_u16: the low bytes, then the high bytes with the carry of the low
\* sum; Z is set back to what it was
AddU16(s, arg1, arg2, with_carry) ==
    LET lo == AddU8(s, arg1 % 256, arg2 % 256, with_carry)
        hi == AddU8(lo.cpu, arg1 \div 256, arg2 \div 256, TRUE)
    IN  [cpu |-> [hi.cpu EXCEPT !.flags =
                    SetFlag(hi.cpu.flags, zero, Contains(s.flags, zero))],
         val |-> hi.val * 256 + lo.val]

\* the flag updates of the AND, OR and XOR arms: Z from the result, N and C
\* cleared, H as given
LogicFlags(s, hf) ==
    [s EXCEPT !.flags = (s.flags % 16) + FlagByte(s.a = 0, FALSE, hf, FALSE)]

\* Cpu::sub_u8: the Cpu with its new flags, and the difference
SubU8(s, arg1, arg2, with_carry) ==
    LET cin == CarryBit(s.flags, with_carry)
        s1 == (arg1 + 256 - arg2) % 256          \* overflowing_sub
        sum == (s1 + 256 - cin) % 256
        \* (arg1 & 0x0f).wrapping_sub(arg2 & 0x0f).wrapping_sub(c)
        hc == ((arg1 % 16) + 512 - (arg2 % 16) - cin) % 256
    IN  [cpu |-> [s EXCEPT !.flags = (s.flags % 16)
                    + FlagByte(sum = 0, TRUE, (hc \div 16) % 2 = 1,
                               arg1 < arg2 \/ s1 < cin)],
         val |-> sum]

\* an add_e8 whose H and C are the borrows of subtracting a negative e8's
\* magnitude: both set when e8 is negative and the low byte has no carry
AddE8BorrowFlags(s, arg1, arg2) ==
    LET r == AddU8(s, arg1 % 256, arg2, FALSE)
        cy == (r.cpu.flags \div carry) % 2 = 1
        neg == arg2 >= 128
        hi == IF cy = neg THEN arg1
              ELSE IF cy THEN (arg1 + 256) % 65536
              ELSE (arg1 + 65536 - 256) % 65536
        f == IF neg /\ ~cy THEN half_carry + carry ELSE r.cpu.flags
    IN  [cpu |-> [r.cpu EXCEPT !.flags = f], val |-> (hi \div 256) * 256 + r.val]

\* an add_e8 that leaves the high byte as it was
AddE8KeepHigh(s, arg1, arg2) ==
    LET r == AddU8(s, arg1 % 256, arg2, FALSE)
    IN  [cpu |-> r.cpu, val |-> (arg1 \div 256) * 256 + r.val]

\* Cpu::add_e8: the Cpu with its new flags, and the sum
AddE8(s, arg1, arg2) ==
    LET r == AddU8(s, arg1 % 256, arg2, FALSE)
        cy == (r.cpu.flags \div carry) % 2 = 1
        neg == arg2 >= 128                       \* arg2 & 0x80 > 0
        \* (false, false) | (true, true) => arg1; (true, false) => + 0x0100;
        \* (false, true) => - 0x0100
        hi == IF cy = neg THEN arg1
              ELSE IF cy THEN (arg1 + 256) % 65536
              ELSE (arg1 + 65536 - 256) % 65536
    IN  [cpu |-> r.cpu, val |-> (hi \div 256) * 256 + r.val]

\* a DAA that looks at A only, never at the half-carry flag
DaaIgnoreHalfCarry(s) ==
    LET n == (s.flags \div subtraction) % 2 = 1
        cf == (s.flags \div carry) % 2 = 1
        val == IF n
               THEN (s.a + 256 - (IF cf THEN 96 ELSE 0)) % 256
               ELSE (s.a + (IF s.a % 16 > 9 THEN 6 ELSE 0)
                         + (IF cf \/ s.a > 153 THEN 96 ELSE 0)) % 256
    IN  [s EXCEPT !.a = val,
                  !.flags = (s.flags % 16)
                      + FlagByte(val = 0, n, FALSE, cf \/ (~n /\ s.a > 153))]

\* DAA (0x27): the adjustment by 0x06 and 0x60, subtracted after a
\* subtraction and added otherwise; only the addition sets carry
Daa(s) ==
    LET n == (s.flags \div subtraction) % 2 = 1
        hf == (s.flags \div half_carry) % 2 = 1
        cf == (s.flags \div carry) % 2 = 1
        val == IF n
               THEN (s.a + 256 - ((IF hf THEN 6 ELSE 0)
                                  + (IF cf THEN 96 ELSE 0))) % 256
               ELSE (s.a + (IF hf \/ s.a % 16 > 9 THEN 6 ELSE 0)
                         + (IF cf \/ s.a > 153 THEN 96 ELSE 0)) % 256
    IN  [s EXCEPT !.a = val,
                  !.flags = (s.flags % 16)
                      + FlagByte(val = 0, n, FALSE, cf \/ (~n /\ s.a > 153))]

\* a panic inside Bus::mem_read / Bus::mem_write reached from an instruction
Abort(s) == [s EXCEPT !.panic = TRUE]

\* the condition test shared by JP cc, JR cc, CALL cc and RET cc
ShouldExecute(condition, f) ==
    CASE condition = 0 -> ~Contains(f, zero)
      [] condition = 1 -> Contains(f, zero)
      [] condition = 2 -> ~Contains(f, carry)
      [] condition = 3 -> Contains(f, carry)

\* i8 value of a byte, as in `mem_read(..) as i8`
AsI8(v) == IF v >= 128 THEN v - 256 ELSE v

\* `x - k` on a u16: an overflow panics in a build with overflow checks and
\* wraps in one without; wrap tells which build runs
SubU16(s, x, k, wrap) ==
    IF x >= k THEN [s EXCEPT !.program_counter = x - k]
    ELSE IF wrap THEN [s EXCEPT !.program_counter = x - k + 65536]
    ELSE [s EXCEPT !.panic = TRUE]

\* POP AF that keeps the low nibble of the popped flag byte
PopAfUnmasked(s) == SetAf(PopU16(s), PopValue(s))

\* the POP AF arm of Cpu::non_prefixed_opcodes
PopAf(s) == SetAf(PopU16(s), BitAnd(PopValue(s), 65520))

\* Cpu::non_prefixed_opcodes, the arms of the opcodes the model runs.  imm8
\* and imm16 are the bytes at program_counter + 1 (and + 2) in the ROM.
NonPrefixedOpcodes(s, op, imm8, imm16, wrap) ==
    LET pc == s.program_counter
        taken == ShouldExecute(OpCond(op), s.flags)
    IN  CASE op = 0 -> s
          [] op = 16 -> s
          [] op \in {1, 17, 33, 49} -> R16Write(s, OpReg1(op), imm16)
          [] op = 62 -> [s EXCEPT !.a = imm8]
          [] op = 224 -> MemWrite(s, 65280 + imm8, s.a)
          [] op = 39 -> Daa(s)
          [] op \in {79, 112, 120, 126} ->           \* LD r8, r8
                IF OpReg2(op) = 6 /\ ReadPanics(GetHl(s)) THEN Abort(s)
                ELSE IF OpReg1(op) = 6
                        /\ WritePanics(GetHl(s), R8Read(s, OpReg2(op)))
                THEN Abort(s)
                ELSE R8Write(s, OpReg1(op), R8Read(s, OpReg2(op)))
          [] op \in {6, 54} ->                       \* LD r8, imm8
                IF OpReg1(op) = 6 /\ WritePanics(GetHl(s), imm8) THEN Abort(s)
                ELSE R8Write(s, OpReg1(op), imm8)
          [] op = 250 ->                             \* LD A, [imm16]
                IF ReadPanics(imm16) THEN Abort(s)
                ELSE [s EXCEPT !.a = MemRead(s, imm16)]
          [] op = 234 ->                             \* LD [imm16], A
                IF WritePanics(imm16, s.a) THEN Abort(s)
                ELSE MemWrite(s, imm16, s.a)
          [] op = 8 ->                               \* LD [imm16], SP
                \* Bus::mem_write_u16: addr + 1 overflows at 0xFFFF
                IF WritePanics(imm16, Lo(s.stack_pointer)) THEN Abort(s)
                ELSE IF imm16 = 65535 /\ ~wrap THEN Abort(s)
                ELSE IF WritePanics((imm16 + 1) % 65536, Hi(s.stack_pointer))
                THEN Abort(s)
                ELSE MemWrite(MemWrite(s, imm16, Lo(s.stack_pointer)),
                              (imm16 + 1) % 65536, Hi(s.stack_pointer))
          [] op = 249 -> [s EXCEPT !.stack_pointer = GetHl(s)]
          [] op \in {18, 34, 50} ->                  \* LD [r16mem], A
                IF WritePanics(R16memAddr(s, OpReg1(op)), s.a) THEN Abort(s)
                ELSE R16memWrite(s, OpReg1(op), s.a)
          [] op \in {26, 42, 58} ->                  \* LD A, [r16mem]
                IF ReadPanics(R16memAddr(s, OpReg2(op))) THEN Abort(s)
                ELSE LET r == R16memRead(s, OpReg2(op))
                     IN  [r.cpu EXCEPT !.a = r.val]
          [] op = 55 ->
                [s EXCEPT !.flags =
                    Insert(Remove(Remove(s.flags, subtraction), half_carry), carry)]
          [] op = 60 ->
                LET val == (s.a + 1) % 256
                    f1 == SetFlag(s.flags, zero, val = 0)
                    f2 == Remove(f1, subtraction)
                IN  [s EXCEPT !.a = val,
                              !.flags = SetFlag(f2, half_carry, s.a % 16 = 15)]
          [] op = 175 ->
                [s EXCEPT !.a = 0,
                          !.flags = Remove(Remove(Remove(
                              Insert(s.flags, zero), subtraction), carry), half_carry)]
          [] op \in {128, 136} ->
                LET r == AddU8(s, s.a, R8Read(s, OpReg2(op)), op = 136)
                IN  [r.cpu EXCEPT !.a = r.val]
          [] op \in {144, 152} ->
                LET r == SubU8(s, s.a, R8Read(s, OpReg2(op)), op = 152)
                IN  [r.cpu EXCEPT !.a = r.val]
          [] op = 184 -> SubU8(s, s.a, R8Read(s, OpReg2(op)), FALSE).cpu
          [] op = 232 ->
                LET r == AddE8(s, s.stack_pointer, imm8)
                IN  [r.cpu EXCEPT !.stack_pointer = r.val,
                        !.flags = r.cpu.flags % subtraction]   \* Z, N removed
          [] op = 248 ->
                LET r == AddE8(s, s.stack_pointer, imm8)
                IN  [r.cpu EXCEPT !.l = Lo(r.val), !.h = Hi(r.val),
                        !.flags = r.cpu.flags % subtraction]   \* Z, N cleared
          [] op \in {9, 25, 41, 57} ->               \* ADD HL, r16
                LET r == AddU16(s, GetHl(s), R16Read(s, OpReg2(op)), FALSE)
                IN  SetHl(r.cpu, r.val)
          [] op = 47 ->                              \* CPL
                [s EXCEPT !.a = 255 - s.a,
                          !.flags = Insert(Insert(s.flags, subtraction),
                                           half_carry)]
          [] op = 160 ->                             \* AND A, r8
                LogicFlags([s EXCEPT !.a = BitAnd(s.a, R8Read(s, OpReg2(op)))],
                           TRUE)
          [] op = 230 ->                             \* AND A, imm8
                LogicFlags([s EXCEPT !.a = BitAnd(s.a, imm8)], TRUE)
          [] op = 176 ->                             \* OR A, r8
                LogicFlags([s EXCEPT !.a = BitOr(s.a, R8Read(s, OpReg2(op)))],
                           FALSE)
          [] op = 246 ->                             \* OR A, imm8: no flag is touched
                [s EXCEPT !.a = BitOr(s.a, imm8)]
          [] op = 168 ->                             \* XOR A, r8
                LogicFlags([s EXCEPT !.a = BitXor(s.a, R8Read(s, OpReg2(op)))],
                           FALSE)
          [] op = 238 ->                             \* XOR A, imm8
                LogicFlags([s EXCEPT !.a = BitXor(s.a, imm8)], FALSE)
          [] op = 118 -> [s EXCEPT !.halted = TRUE]
          [] op = 243 -> [s EXCEPT !.ime = FALSE]
          [] op = 251 -> [s EXCEPT !.ime = TRUE]
          [] op = 195 -> [s EXCEPT !.program_counter = (imm16 - 3) % 65536]
          [] op \in {194, 202, 210, 218} ->
                IF taken
                THEN SubU16([s EXCEPT !.cycles = s.cycles + 1], imm16, 3, wrap)
                ELSE s
          [] op = 24 ->
                [s EXCEPT !.program_counter = (pc + AsI8(imm8)) % 65536]
          [] op \in {32, 40, 48, 56} ->
                IF taken
                THEN [s EXCEPT !.cycles = s.cycles + 1,
                               !.program_counter = (pc + AsI8(imm8)) % 65536]
                ELSE s
          [] op = 205 ->
                [PushU16(s, (pc + 3) % 65536)
                 EXCEPT !.program_counter = (imm16 - 3) % 65536]
          [] op \in {196, 204, 212, 220} ->
                IF taken
                THEN [PushU16([s EXCEPT !.cycles = s.cycles + 3], (pc + 3) % 65536)
                      EXCEPT !.program_counter = (imm16 - 3) % 65536]
                ELSE s
          [] op = 201 -> SubU16(PopU16(s), PopValue(s), 1, wrap)
          [] op \in {192, 200, 208, 216} ->
                IF taken
                THEN SubU16(PopU16([s EXCEPT !.cycles = s.cycles + 3]),
                            PopValue(s), 1, wrap)
                ELSE s
          [] op = 217 ->
                [SubU16(PopU16(s), PopValue(s), 1, wrap) EXCEPT !.ime = TRUE]
          [] op \in {193, 209, 225} ->
                R16stkWrite(PopU16(s), OpReg1(op), PopValue(s))
          [] op = 241 -> PopAf(s)
          [] op \in {197, 213, 229, 245} ->
                PushU16(s, R16stkRead(s, OpReg1(op)))

\* a step end that forgets to clear the extra-cycle accumulator
StepAdvanceKeepCycles(s, bytes) ==
    [s EXCEPT !.program_counter = (s.program_counter + bytes) % 65536]

\* the end of Cpu::step: self.cycles = 0 and the pc advance
StepAdvance(s, bytes) ==
    [s EXCEPT !.cycles = 0,
              !.program_counter = (s.program_counter + bytes) % 65536]

\* which opcodes push or pop
PushOps == {197, 213, 229, 245, 205, 196, 204, 212, 220}
PopOps == {193, 209, 225, 241, 201, 217, 192, 200, 208, 216}

\* a step that runs the interrupt check once more after Bus::tick
StepExecuteCheckAfterTick(s, op, imm8, imm16, wrap) ==
    IF op \notin TableOps
    THEN [cpu |-> [s EXCEPT !.panic = TRUE], n |-> 0, tick |-> BusTick(s, 0)]
    ELSE LET s1 == NonPrefixedOpcodes(s, op, imm8, imm16, wrap)
             n == OpCycles(op) + s1.cycles
             t == BusTick(s1, n)
         IN  [cpu |-> StepAdvance(InterruptCheck(t.bus), OpBytes(op)),
              n |-> n, tick |-> t]

\* Cpu::step from the trace callback on: fetch, execute, Bus::tick, advance.
\* The result carries the tick's argument and return values.
StepExecute(s, op, imm8, imm16, wrap) ==
    IF op \notin TableOps
    THEN [cpu |-> [s EXCEPT !.panic = TRUE], n |-> 0, tick |-> BusTick(s, 0)]
    ELSE LET s1 == NonPrefixedOpcodes(s, op, imm8, imm16, wrap)
             n == OpCycles(op) + s1.cycles
             t == BusTick(s1, n)
         IN  [cpu |-> StepAdvance(t.bus, OpBytes(op)), n |-> n, tick |-> t]

----------------------------------------------------------------------------
(* The machine as one record, and back *)

CurTimer ==
    [divider_counter |-> divider_counter, divider_cycle |-> divider_cycle,
     timer_counter |-> timer_counter, timer_cycle |-> timer_cycle,
     timer_modulo |-> timer_modulo, tac_enable |-> tac_enable,
     tac_clock |-> tac_clock]

CurPpu ==
    [control |-> control, status |-> status, lyc |-> lyc, cycle |-> cycle,
     scanline |-> scanline, mode |-> mode, vram |-> vram, oam |-> oam]

Cur ==
    [a |-> a, b |-> b, c |-> c, d |-> d, e |-> e, flags |-> flags,
     h |-> h, l |-> l,
     stack_pointer |-> stack_pointer, program_counter |-> program_counter,
     ime |-> ime, halted |-> halted, prefixed_mode |-> prefixed_mode,
     cycles |-> cycles, panic |-> FALSE,
     interrupt_enable |-> interrupt_enable, interrupt_flag |-> interrupt_flag,
     hram |-> hram, cpu_ram |-> cpu_ram,
     joypad_interrupt |-> joypad_interrupt,
     timer |-> CurTimer, ppu |-> CurPpu, apu |-> apu, cart |-> cart,
     host_clock |-> host_clock]

SetTimer(t) ==
    /\ divider_counter' = t.divider_counter
    /\ divider_cycle' = t.divider_cycle
    /\ timer_counter' = t.timer_counter
    /\ timer_cycle' = t.timer_cycle
    /\ timer_modulo' = t.timer_modulo
    /\ tac_enable' = t.tac_enable
    /\ tac_clock' = t.tac_clock

SetPpu(p) ==
    /\ control' = p.control
    /\ status' = p.status
    /\ lyc' = p.lyc
    /\ cycle' = p.cycle
    /\ scanline' = p.scanline
    /\ mode' = p.mode
    /\ vram' = p.vram
    /\ oam' = p.oam

SetMachine(s) ==
    /\ a' = s.a
    /\ b' = s.b
    /\ c' = s.c
    /\ d' = s.d
    /\ e' = s.e
    /\ h' = s.h
    /\ l' = s.l
    /\ flags' = s.flags
    /\ stack_pointer' = s.stack_pointer
    /\ program_counter' = s.program_counter
    /\ ime' = s.ime
    /\ halted' = s.halted
    /\ prefixed_mode' = s.prefixed_mode
    /\ cycles' = s.cycles
    /\ interrupt_enable' = s.interrupt_enable
    /\ interrupt_flag' = s.interrupt_flag
    /\ hram' = s.hram
    /\ cpu_ram' = s.cpu_ram
    /\ joypad_interrupt' = s.joypad_interrupt
    /\ apu' = s.apu
    /\ cart' = s.cart
    /\ host_clock' = s.host_clock
    /\ SetTimer(s.timer)
    /\ SetPpu(s.ppu)

----------------------------------------------------------------------------
(* Bounds and inputs *)

MaxSteps == 4           \* instructions executed in one explored run
MaxTick == 6            \* cycles of the longest instruction (CALL cc taken)
MaxAccess == 3          \* bus accesses made in one explored run
MaxCycles == 20         \* cycles ticked in one run of the timer scenario

\* what a fetch draws from the ROM: an immediate only for the opcodes that
\* read one
Imm8Of(op) ==
    CASE op = 62 -> {2, 15, 255}             \* LD A, imm8
      [] op = 224 -> {15, 255}               \* LDH [imm8], A : IF and IE
      [] op \in {24, 32, 40, 48, 56} -> {2}  \* JR offsets
      [] op = 232 -> {1, 15, 128, 241}       \* ADD SP, e8
      [] op \in {6, 54} -> {165}             \* LD B / LD [HL], imm8
      [] op = 248 -> {1, 2, 15, 128, 241, 255}      \* LD HL, SP + e8
      [] op \in {230, 246, 238} -> {0, 15, 60, 255}  \* AND, OR, XOR A, imm8
      [] OTHER -> {0}
Imm16Of(op) ==
    CASE op \in {1, 195, 194, 202, 210, 218, 205, 196, 204, 212, 220} -> {4660}
      [] op \in {17, 33} -> {43981}          \* LD DE / LD HL, 0xABCD
      [] op = 49 -> {53248, 57344}            \* LD SP: stacks in work RAM
      [] op \in {8, 250} -> {49200}           \* [0xC030]
      [] op = 234 -> {49200, 57344}           \* [0xC030], [0xE000]
      [] OTHER -> {3}
\* the bytes the ROM holds at pc + 1 and pc + 2 for an immediate imm16
Imm16Bytes(op) == {<<v % 256, v \div 256>> : v \in Imm16Of(op)}
\* the build (overflow checks off / on) matters only where the code
\* subtracts without wrapping
WrapOf(op) ==
    IF op \in {201, 217, 192, 200, 208, 216, 194, 202, 210, 218}
    THEN BOOLEAN ELSE {TRUE}

\* the opcodes a ROM of the interrupt runs / of the control-flow runs holds
IntOps == {0, 118, 243, 251, 62, 224, 60, 217, 203}
LateOps == {0, 251, 224, 205}
DecodeOps == {0, 1, 55, 60, 62, 175} \cup MissingOps
\* ADD, ADC, SUB, SBC, CP A, B, and the bytes A and B start with
AluOps == {128, 136, 144, 152, 184}
AluBytes == {0, 1, 15, 16, 128, 255}
\* ADD SP, e8 and LD HL, SP + e8, and the values SP starts with
SpOps == {232, 248}
\* one load of each form: LD r8, r8 (A, B / C, A / A, [HL] / [HL], B),
\* LD r8, imm8, LD r16, imm16, LD SP, HL, LD [imm16], SP, LD A, [imm16],
\* LD [imm16], A, LD [r16mem], A and LD A, [r16mem]
LoadOps == {120, 79, 126, 112, 6, 54, 1, 49, 249, 8, 250, 234, 18, 26, 34, 50,
            42, 58}
\* HL at the end of work RAM and in HRAM
LoadHl == {57342, 65424}
\* ADD A, B / SUB A, B / DAA on packed-BCD bytes
DaaOps == {128, 144, 39}
BcdDigits == {0, 1, 5, 8, 9}
BcdBytes == {hi * 16 + lo : hi \in BcdDigits, lo \in BcdDigits}
SpValues == {0, 255, 4095, 65534, 65535}
\* LD rr / LD SP / LD A / SCF, PUSH rr, POP rr
StackOps == {1, 17, 33, 49, 62, 55, 197, 213, 229, 245, 193, 209, 225, 241}
FlowOps == {1, 55, 175, 197, 245, 241, 194, 218, 40, 48, 196, 220, 200, 208}

\* addresses and bytes of the register accesses: work RAM, serial, IF, the
\* PPU registers, HRAM, IE
MapReadAddrs == {49152, 65281, 65282, 65295, 65344, 65345, 65346, 65347,
                 65348, 65349, 65351, 65354, 65355, 65408, 65535}
MapWriteAddrs == {49152, 65281, 65295, 65348, 65349, 65408, 65535}
MapData == {5, 255}

\* addresses and bytes of the work RAM and echo accesses: the first and last
\* byte of each range
EchoProbeAddrs == {49152, 57343, 57344, 65023}
EchoData == {90, 255}

\* addresses and bytes of the DMA runs: the first and last byte of the
\* pages 0x80 (VRAM), 0xC0 and 0xDF (work RAM), of OAM, and the DMA register
DmaReadAddrs == {65024, 65183}
DmaWriteAddrs == {32768, 32927, 49152, 49311, 57247, 65024, 65183, 65350}
DmaData == {128, 192, 223}

\* readings of the host clock: the second, minute, hour and day of the year
\* (from 0) that Local::now() returns
HostStart == [second |-> 7, minute |-> 30, hour |-> 12, ordinal0 |-> 306]
HostClocks ==
    {HostStart, [second |-> 59, minute |-> 59, hour |-> 23, ordinal0 |-> 16]}

----------------------------------------------------------------------------
(* Power-on state: Cpu::new, Bus::new, Timer::new, Ppu::new, Joypad::new *)

CpuNew ==
    /\ a = 0 /\ b = 0 /\ c = 0 /\ d = 0 /\ e = 0 /\ flags = 0
    /\ h = 0 /\ l = 0
    /\ stack_pointer = 65534
    /\ program_counter = 256
    /\ ime = FALSE /\ halted = FALSE /\ prefixed_mode = FALSE
    /\ frame_ready = FALSE /\ cycles = 0

\* Bus::new(cartridge)
BusNewWith(cartridge) ==
    /\ interrupt_enable = 0 /\ interrupt_flag = 0
    /\ hram = [i \in 0 .. 126 |-> 0]
    /\ cpu_ram = ZeroArray
    /\ joypad_interrupt = FALSE
    /\ apu = ApuNew
    /\ cart = cartridge
    /\ host_clock = HostStart

\* Bus::new with a 32 KiB image that has no mapper and no RAM
BusNew == BusNewWith(Mbc0New(32768, 0))

TimerNew ==
    /\ divider_counter = 0 /\ divider_cycle = 0
    /\ timer_counter = 0 /\ timer_cycle = 0 /\ timer_modulo = 0
    /\ tac_enable = FALSE /\ tac_clock = 0

PpuNew ==
    /\ control = 0 /\ status = 0 /\ lyc = 0
    /\ cycle = 0 /\ scanline = 0 /\ mode = "MODE2"
    /\ vram = ZeroArray /\ oam = ZeroArray

StepNew ==
    /\ at = "check" /\ opcode_num = 0 /\ imm8_read = 0 /\ tick_cycles = 0
    /\ imm16_read = <<0, 0>>
    /\ panicked = FALSE /\ steps = 0
    /\ display_result = "DoNothing" /\ lcd_interrupt = FALSE
    /\ vblank_interrupt = FALSE /\ timer_interrupt = FALSE
    /\ joypad_request = FALSE
    /\ bus_access = "none" /\ bus_addr = 0 /\ bus_data = 0 /\ read_value = 0
    /\ write_log = <<>>

----------------------------------------------------------------------------
(* Cpu::step in two moves: up to the trace callback, and from it on *)

\* self.interrupt_check(); callback(self)
StepInterruptCheck ==
    /\ at = "check" /\ ~panicked
    /\ (InterruptPending(Cur) /\ ime) => CanPush(Cur)
    /\ \E s \in {InterruptCheck(Cur)} : SetMachine(s)
    /\ at' = "fetch"
    /\ UNCHANGED <<frame_ready, opcode_num, imm8_read, imm16_read, tick_cycles,
                   panicked,
                   steps,
                   resultVars, accessVars>>

\* fetch, execute, self.bus.tick(cycles + self.cycles), advance the pc
StepFetchExecute(ops) ==
    /\ at = "fetch" /\ ~panicked /\ steps < MaxSteps
    /\ \E op \in ops : \E imm8 \in Imm8Of(op), rom \in Imm16Bytes(op),
                          wrap \in WrapOf(op) :
        /\ op \in PushOps => CanPush(Cur)
        /\ op \in PopOps => CanPop(Cur)
        /\ \E r \in {StepExecute(Cur, op, imm8, FromLeBytes(rom[1], rom[2]),
                                  wrap)} :
               IF r.cpu.panic
               THEN /\ panicked' = TRUE
                    /\ opcode_num' = op
                    /\ UNCHANGED <<imm8_read, imm16_read>>
                    /\ UNCHANGED <<cpuVars, busVars, timerVars, ppuVars,
                                   resultVars, accessVars, at, tick_cycles,
                                   steps>>
               ELSE /\ SetMachine(r.cpu)
                    /\ frame_ready' = r.tick.ret
                    /\ opcode_num' = op
                    /\ imm8_read' = imm8
                    /\ imm16_read' = rom
                    /\ tick_cycles' = r.n
                    /\ display_result' = r.tick.display
                    /\ lcd_interrupt' = r.tick.lcd
                    /\ vblank_interrupt' = r.tick.vblank
                    /\ timer_interrupt' = r.tick.timer
                    /\ joypad_request' = r.tick.joypad
                    /\ at' = "check"
                    /\ steps' = steps + 1
                    /\ UNCHANGED <<panicked, accessVars>>

\* Joypad::button_pressed_status(_, _, true), called by the host between steps
ButtonPressed ==
    /\ at = "check" /\ ~panicked /\ ~joypad_interrupt
    /\ joypad_interrupt' = TRUE
    /\ UNCHANGED <<cpuVars, stepVars, timerVars, ppuVars, resultVars,
                   accessVars, interrupt_enable, interrupt_flag, hram,
                   cpu_ram, apu, cart, host_clock>>

\* Bus::mem_read(addr) called on its own, as the CPU or a test calls it
BusRead(addrs) ==
    /\ ~panicked /\ steps < MaxAccess
    /\ \E addr \in addrs :
        /\ bus_access' = "read" /\ bus_addr' = addr /\ bus_data' = 0
        /\ IF ReadPanics(addr) \/ CartReadPanics(cart, addr)
           THEN panicked' = TRUE /\ UNCHANGED read_value
           ELSE read_value' = MemRead(Cur, addr) /\ UNCHANGED panicked
    /\ steps' = steps + 1
    /\ UNCHANGED <<cpuVars, busVars, timerVars, ppuVars, resultVars, at,
                   opcode_num, imm8_read, imm16_read, tick_cycles,
                   write_log>>

\* Bus::mem_write(addr, data) called on its own
BusWrite(addrs, datas) ==
    /\ ~panicked /\ steps < MaxAccess
    /\ \E addr \in addrs, data \in datas :
        /\ bus_access' = "write" /\ bus_addr' = addr /\ bus_data' = data
        /\ write_log' = Append(write_log, <<addr, data>>)
        /\ IF WritePanics(addr, data) \/ CartWritePanics(cart, addr)
           THEN /\ panicked' = TRUE
                /\ UNCHANGED <<cpuVars, busVars, timerVars, ppuVars>>
           ELSE /\ \E t \in {MemWrite(Cur, addr, data)} : SetMachine(t)
                /\ UNCHANGED <<frame_ready, panicked>>
    /\ steps' = steps + 1
    /\ UNCHANGED <<resultVars, at, opcode_num, imm8_read, imm16_read,
                   tick_cycles,
                   read_value>>

\* runs of the interrupt machinery from power-on
Init == CpuNew /\ BusNew /\ TimerNew /\ PpuNew /\ StepNew
Next == StepInterruptCheck \/ StepFetchExecute(IntOps) \/ ButtonPressed
Spec == Init /\ [][Next]_vars

\* runs of branches, calls, returns and stack instructions from power-on
NextFlow == StepInterruptCheck \/ StepFetchExecute(FlowOps)
SpecFlow == Init /\ [][NextFlow]_vars

\* Bus::tick as the PPU sees it: Ppu::tick(n), the IF bits Bus::tick sets from
\* its result and the value Bus::tick returns (kept in frame_ready, where
\* Cpu::step stores it).  The timer, joypad and APU parts of Bus::tick do not
\* read or write the PPU; Spec and SpecLate run them.
BusTickPpu(n) ==
    \E pt \in {PpuTick(CurPpu, n)} :
        /\ SetPpu(pt.ppu)
        /\ interrupt_flag' = BitOr(interrupt_flag,
                                   Requested(FALSE, pt.lcd, pt.vblank, FALSE))
        /\ frame_ready' = FrameComplete(pt.display)
        /\ display_result' = pt.display
        /\ lcd_interrupt' = pt.lcd
        /\ vblank_interrupt' = pt.vblank
        /\ UNCHANGED <<a, b, c, d, e, flags, h, l, stack_pointer,
                       program_counter, ime,
                       halted, prefixed_mode, cycles, stepVars, timerVars,
                       interrupt_enable, hram, cpu_ram, joypad_interrupt,
                       apu, cart, host_clock, accessVars, timer_interrupt,
                       joypad_request>>

\* one tick of at most the cycles of one instruction
PpuTickStep == \E n \in 0 .. MaxTick : BusTickPpu(n)

\* Bus::mem_write(0xFF40, val): the program turns the LCD off or on
LcdcWrite ==
    /\ \E val \in {0, lcd_enable} :
          \E s \in {MemWrite(Cur, 65344, val)} : SetMachine(s)
    /\ UNCHANGED <<frame_ready, stepVars, resultVars, accessVars>>

\* runs of the PPU from power-on, the LCD switched at any moment
NextPpu == PpuTickStep \/ LcdcWrite
SpecPpu == Init /\ [][NextPpu]_vars

\* the ticks of a program of HALT (no cycles) and CALL (six)
FrameOps == {118, 205}
PpuTickOp == \E op \in FrameOps : BusTickPpu(OpCycles(op))

\* runs of whole frames, in which ticks that move the PPU clock keep arriving
NextFrame == PpuTickOp \/ LcdcWrite
SpecFrame == Init /\ [][NextFrame]_vars /\ WF_vars(BusTickPpu(OpCycles(205)))

\* runs of pushes and pops on stacks in high RAM and in work RAM
NextStack == StepInterruptCheck \/ StepFetchExecute(StackOps)
SpecStack == Init /\ [][NextStack]_vars

\* runs of the 8-bit arithmetic from every A, B in AluBytes and either carry
AluInit ==
    /\ a \in AluBytes /\ b \in AluBytes /\ flags \in {0, carry}
    /\ c = 0 /\ d = 0 /\ e = 0 /\ h = 0 /\ l = 0
    /\ stack_pointer = 65534 /\ program_counter = 256
    /\ ime = FALSE /\ halted = FALSE /\ prefixed_mode = FALSE
    /\ frame_ready = FALSE /\ cycles = 0
    /\ BusNew /\ TimerNew /\ PpuNew /\ StepNew
NextAlu == StepInterruptCheck \/ StepFetchExecute(AluOps)
SpecAlu == AluInit /\ [][NextAlu]_vars

\* runs of loads with A = 0x5A, B = 0x3C, DE = 0xC020, HL in LoadHl and the
\* flags all clear or all set
LoadInit ==
    /\ a = 90 /\ b = 60 /\ c = 0 /\ d = 192 /\ e = 32
    /\ \E hl \in LoadHl : h = Hi(hl) /\ l = Lo(hl)
    /\ flags \in {0, zero + subtraction + half_carry + carry}
    /\ stack_pointer = 65534 /\ program_counter = 256
    /\ ime = FALSE /\ halted = FALSE /\ prefixed_mode = FALSE
    /\ frame_ready = FALSE /\ cycles = 0
    /\ BusNew /\ TimerNew /\ PpuNew /\ StepNew
NextLoad == StepInterruptCheck \/ StepFetchExecute(LoadOps)
SpecLoad == LoadInit /\ [][NextLoad]_vars

\* runs of ADD, SUB and DAA from every packed-BCD A and B of BcdBytes
BcdInit ==
    /\ a \in BcdBytes /\ b \in BcdBytes /\ flags = 0
    /\ c = 0 /\ d = 0 /\ e = 0 /\ h = 0 /\ l = 0
    /\ stack_pointer = 65534 /\ program_counter = 256
    /\ ime = FALSE /\ halted = FALSE /\ prefixed_mode = FALSE
    /\ frame_ready = FALSE /\ cycles = 0
    /\ BusNew /\ TimerNew /\ PpuNew /\ StepNew
NextBcd == StepInterruptCheck \/ StepFetchExecute(DaaOps)
SpecBcd == BcdInit /\ [][NextBcd]_vars

\* runs of the SP arithmetic from every SP in SpValues and any flags
SpInit ==
    /\ stack_pointer \in SpValues /\ flags \in {0, zero + subtraction + carry}
    /\ a = 0 /\ b = 0 /\ c = 0 /\ d = 0 /\ e = 0 /\ h = 0 /\ l = 0
    /\ program_counter = 256
    /\ ime = FALSE /\ halted = FALSE /\ prefixed_mode = FALSE
    /\ frame_ready = FALSE /\ cycles = 0
    /\ BusNew /\ TimerNew /\ PpuNew /\ StepNew
NextSp == StepInterruptCheck \/ StepFetchExecute(SpOps)
SpecSp == SpInit /\ [][NextSp]_vars

\* runs of the SP + e8 instructions from the stack pointers 0xFFF8 and 0xFF00
SpEdgeValues == {65528, 65280}
SpEdgeInit ==
    /\ stack_pointer \in SpEdgeValues /\ flags \in {0, zero + subtraction + carry}
    /\ a = 0 /\ b = 0 /\ c = 0 /\ d = 0 /\ e = 0 /\ h = 0 /\ l = 0
    /\ program_counter = 256
    /\ ime = FALSE /\ halted = FALSE /\ prefixed_mode = FALSE
    /\ frame_ready = FALSE /\ cycles = 0
    /\ BusNew /\ TimerNew /\ PpuNew /\ StepNew
NextSpEdge == StepInterruptCheck \/ StepFetchExecute(SpOps)
SpecSpEdge == SpEdgeInit /\ [][NextSpEdge]_vars

\* runs in which the fetch meets every byte CPU_OP_CODES has no entry for
NextDecode == StepInterruptCheck \/ StepFetchExecute(DecodeOps)
SpecDecode == Init /\ [][NextDecode]_vars

\* runs of register accesses from power-on
NextMap == BusRead(MapReadAddrs) \/ BusWrite(MapWriteAddrs, MapData)
SpecMap == Init /\ [][NextMap]_vars

\* runs of work RAM and echo accesses from power-on
NextEcho == BusRead(EchoProbeAddrs) \/ BusWrite(EchoProbeAddrs, EchoData)
SpecEcho == Init /\ [][NextEcho]_vars

\* runs of OAM DMA from power-on
NextDma == BusRead(DmaReadAddrs) \/ BusWrite(DmaWriteAddrs, DmaData)
SpecDma == Init /\ [][NextDma]_vars

\* cycles ticked since power-on, read off the divider (DIV is never written
\* in the runs that use it)
TotalTicked == divider_counter * TIMER_CYCLES[4] + divider_cycle

\* Bus::tick(n) called on its own, as a test or the host drives it; the
\* return value is kept in frame_ready
BusTickStep ==
    \E n \in 0 .. MaxTick :
        /\ TotalTicked + n <= MaxCycles
        /\ \E t \in {BusTick(Cur, n)} :
            /\ SetMachine(t.bus)
            /\ frame_ready' = t.ret
            /\ display_result' = t.display
            /\ lcd_interrupt' = t.lcd
            /\ vblank_interrupt' = t.vblank
            /\ timer_interrupt' = t.timer
            /\ joypad_request' = t.joypad
        /\ UNCHANGED <<stepVars, accessVars>>

\* the timer scenario: power-on, then TMA = 0x42, TIMA = 0xFF, TAC = 0x05
\* written through Bus::mem_write before the first tick
TimerScenarioInit ==
    /\ CpuNew /\ BusNew /\ PpuNew /\ StepNew
    /\ \E t \in {MemWrite(MemWrite(MemWrite([timer |-> [
                        divider_counter |-> 0, divider_cycle |-> 0,
                        timer_counter |-> 0, timer_cycle |-> 0,
                        timer_modulo |-> 0, tac_enable |-> FALSE,
                        tac_clock |-> 0]], 65286, 66), 65285, 255), 65287, 5).timer} :
          /\ divider_counter = t.divider_counter
          /\ divider_cycle = t.divider_cycle
          /\ timer_counter = t.timer_counter
          /\ timer_cycle = t.timer_cycle
          /\ timer_modulo = t.timer_modulo
          /\ tac_enable = t.tac_enable
          /\ tac_clock = t.tac_clock
NextTimer == BusTickStep \/ ButtonPressed
SpecTimer == TimerScenarioInit /\ [][NextTimer]_vars

\* runs that start late in a frame: LCD on with the mode-1 STAT source
\* selected, the PPU at the end of line 143, DIV as 65660 ticked cycles
\* leave it, TIMA one period short of overflowing, every interrupt enabled
LateInit ==
    /\ a = 255 /\ b = 0 /\ c = 0 /\ d = 0 /\ e = 0 /\ flags = 0
    /\ h = 0 /\ l = 0
    /\ stack_pointer = 65534 /\ program_counter = 336
    /\ ime \in BOOLEAN /\ halted = FALSE /\ prefixed_mode = FALSE
    /\ frame_ready = FALSE /\ cycles = 0
    /\ interrupt_enable = 31 /\ interrupt_flag = 0
    /\ hram = [i \in 0 .. 126 |-> 0]
    /\ cpu_ram = ZeroArray
    /\ joypad_interrupt = FALSE
    /\ divider_counter = 1 /\ divider_cycle = 60
    /\ timer_counter = 255 /\ timer_cycle = 2 /\ timer_modulo = 66
    /\ tac_enable = TRUE /\ tac_clock = 1
    /\ apu = ApuTicks(ApuRun(ApuNew, 257, 255), 125)
    /\ cart = Mbc0New(32768, 0)
    /\ host_clock = HostStart
    /\ control = 128 /\ status = 16 /\ lyc = 0
    /\ cycle = 452 /\ scanline = 143 /\ mode = "MODE0"
    /\ vram = ZeroArray /\ oam = ZeroArray
    /\ StepNew
NextLate == StepInterruptCheck \/ StepFetchExecute(LateOps) \/ ButtonPressed
SpecLate == LateInit /\ [][NextLate]_vars

\* the machine behind the bus as Bus::new leaves it
BusPowerOn ==
    [interrupt_enable |-> 0, interrupt_flag |-> 0,
     hram |-> [i \in 0 .. 126 |-> 0], cpu_ram |-> ZeroArray,
     joypad_interrupt |-> FALSE,
     timer |-> [divider_counter |-> 0, divider_cycle |-> 0,
                timer_counter |-> 0, timer_cycle |-> 0, timer_modulo |-> 0,
                tac_enable |-> FALSE, tac_clock |-> 0],
     ppu |-> [control |-> 0, status |-> 0, lyc |-> 0, cycle |-> 0,
              scanline |-> 0, mode |-> "MODE2", vram |-> ZeroArray,
              oam |-> ZeroArray],
     apu |-> ApuNew, cart |-> Mbc0New(32768, 0), host_clock |-> HostStart]

RECURSIVE BusRun(_, _, _)
\* the machine after k calls of Bus::tick(n)
BusRun(s, k, n) ==
    IF k = 0 THEN s
    ELSE IF k = 1 THEN BusTick(s, n).bus
    ELSE CHOOSE r \in {BusRun(s1, k - (k \div 2), n) :
                       s1 \in {BusRun(s, k \div 2, n)}} : TRUE

RECURSIVE MemWrites(_, _)
\* Bus::mem_write called with each <<addr, data>> of ws in turn
MemWrites(s, ws) ==
    IF ws = <<>> THEN s
    ELSE CHOOSE r \in {MemWrites(s1, Tail(ws)) :
                       s1 \in {MemWrite(s, Head(ws)[1], Head(ws)[2])}} : TRUE

\* a sound set-up: NR52 = 0x80, then channel 1 with NR10 = 0x19, NR11 = 0xBF
\* (length 1), NR12 = 0xF0, NR13 = 0xC1, NR14 = 0xC7 (trigger, length on),
\* channel 2 with NR21 = 0x80, NR22 = 0xF0, NR23 = 0xC1, NR24 = 0x87,
\* channel 3 with NR30 = 0x80, NR31 = 0, NR32 = 0x20, NR33 = 0xC1,
\* NR34 = 0x87, channel 4 with NR41 = 0, NR42 = 0xF0, NR43 = 0x11,
\* NR44 = 0x80, and NR50 = 0x77, NR51 = 0xFF
SoundSetup ==
    <<  <<65318, 128>>,
        <<65296, 25>>, <<65297, 191>>, <<65298, 240>>, <<65299, 193>>,
        <<65300, 199>>,
        <<65302, 128>>, <<65303, 240>>, <<65304, 193>>, <<65305, 135>>,
        <<65306, 128>>, <<65307, 0>>, <<65308, 32>>, <<65309, 193>>,
        <<65310, 135>>,
        <<65312, 0>>, <<65313, 240>>, <<65314, 17>>, <<65315, 128>>,
        <<65316, 119>>, <<65317, 255>>  >>

\* the machine 510 calls of Bus::tick(4) after power-on, 7 cycles short of
\* the first frame-sequencer step
SoundOff == BusRun(BusPowerOn, 510, 4)

\* the sound hardware still off, and set up
ApuScenarios == {SoundOff, MemWrites(SoundOff, SoundSetup)}

\* the part of the machine behind the bus is m
BusIs(m) ==
    /\ interrupt_enable = m.interrupt_enable
    /\ interrupt_flag = m.interrupt_flag
    /\ hram = m.hram /\ cpu_ram = m.cpu_ram
    /\ joypad_interrupt = m.joypad_interrupt
    /\ apu = m.apu /\ cart = m.cart /\ host_clock = m.host_clock
    /\ divider_counter = m.timer.divider_counter
    /\ divider_cycle = m.timer.divider_cycle
    /\ timer_counter = m.timer.timer_counter
    /\ timer_cycle = m.timer.timer_cycle
    /\ timer_modulo = m.timer.timer_modulo
    /\ tac_enable = m.timer.tac_enable
    /\ tac_clock = m.timer.tac_clock
    /\ control = m.ppu.control /\ status = m.ppu.status /\ lyc = m.ppu.lyc
    /\ cycle = m.ppu.cycle /\ scanline = m.ppu.scanline /\ mode = m.ppu.mode
    /\ vram = m.ppu.vram /\ oam = m.ppu.oam

ApuInit == CpuNew /\ StepNew /\ \E m \in ApuScenarios : BusIs(m)

\* the cycles of one call of Bus::tick in the sound runs
SoundTicks == {7}

\* Bus::tick(n) called on its own
BusTickSound ==
    /\ ~panicked /\ steps < MaxAccess
    /\ \E n \in SoundTicks : \E t \in {BusTick(Cur, n)} :
        /\ SetMachine(t.bus)
        /\ frame_ready' = t.ret
        /\ display_result' = t.display
        /\ lcd_interrupt' = t.lcd
        /\ vblank_interrupt' = t.vblank
        /\ timer_interrupt' = t.timer
        /\ joypad_request' = t.joypad
    /\ steps' = steps + 1
    /\ bus_access' = "none"
    /\ UNCHANGED <<at, opcode_num, imm8_read, imm16_read, tick_cycles,
                   panicked, bus_addr, bus_data, read_value, write_log>>

\* the registers FF10-FF26, their length timers and the other registers the
\* sound runs write
ApuRegisters == 65296 .. 65318
LengthTimerAddrs == {65297, 65302, 65307, 65312}
ControlAddrs == {65300, 65305, 65310, 65315}
DacAddrs == {65298, 65303, 65306, 65313}
OtherApuAddrs == {65296, 65299, 65308, 65314, 65316, 65317, 65328}

\* runs of register writes, NR52 reads and ticks on the sound hardware, off
\* or set up
NextApu ==
    \/ BusWrite({65318}, {15, 143})
    \/ BusWrite(LengthTimerAddrs, {255})
    \/ BusWrite(ControlAddrs, {64, 199})
    \/ BusWrite(DacAddrs, {0, 243})
    \/ BusWrite(OtherApuAddrs, {90})
    \/ BusRead({65298, 65318, 65328})
    \/ BusTickSound
SpecApu == ApuInit /\ [][NextApu]_vars

\* power-on with one of the cartridges of carts in the slot
CartInit(carts) ==
    /\ CpuNew /\ TimerNew /\ PpuNew /\ StepNew
    /\ \E m \in carts : BusNewWith(m)

\* MBC1 cartridges of 4, 32, 64 and 128 ROM banks, without RAM
Mbc1Carts ==
    {Mbc1New(65536, 0), Mbc1New(524288, 0), Mbc1New(MIB, 0),
     Mbc1New(2 * MIB, 0)}

\* runs of MBC1 register writes (ROM bank, upper bits, mode) and ROM reads
NextMbc1 ==
    \/ BusWrite({8192}, {0, 5, 32, 63})
    \/ BusWrite({16384}, {0, 1, 2, 3, 17})
    \/ BusWrite({24576}, {0, 1})
    \/ BusRead({0, 16384, 32767})
SpecMbc1 == CartInit(Mbc1Carts) /\ [][NextMbc1]_vars

\* cartridges with and without external RAM under each mapper
RamCarts ==
    {Mbc1New(65536, 0), Mbc1New(65536, 8 * KIB), Mbc3New(65536, 0),
     Mbc3New(65536, 32 * KIB), Mbc0New(32768, 0)}

\* runs of RAM-enable writes, RAM/RTC selects and external RAM accesses
NextCartRam ==
    \/ BusWrite({0}, {0, 10})
    \/ BusWrite({16384}, {0, 8})
    \/ BusWrite({40960, 49151}, {90})
    \/ BusRead({40960, 49151})
SpecCartRam == CartInit(RamCarts) /\ [][NextCartRam]_vars

\* the host's wall clock moves on between two steps of the emulator
HostClockTick ==
    /\ ~panicked
    /\ \E now \in HostClocks \ {host_clock} : host_clock' = now
    /\ UNCHANGED <<cpuVars, stepVars, timerVars, ppuVars, resultVars,
                   accessVars, interrupt_enable, interrupt_flag, hram,
                   cpu_ram, joypad_interrupt, apu, cart>>

\* MBC3 cartridges with a clock, without and with RAM
Mbc3Carts == {Mbc3New(65536, 0), Mbc3New(65536, 32 * KIB)}

\* runs of latch writes, RTC selects and RTC accesses while the host clock
\* runs
NextMbc3 ==
    \/ BusWrite({24576, 32767}, {0, 1, 2})
    \/ BusWrite({16384}, {8})
    \/ BusWrite({40960}, {33})
    \/ BusRead({40960})
    \/ HostClockTick
SpecMbc3 == CartInit(Mbc3Carts) /\ [][NextMbc3]_vars

\* instructions that do not transfer control: without an operand byte (NOP,
\* ADD HL, BC, ADD HL, HL, CPL, SCF, INC A, ADD A, B, AND A, B), with an imm8
\* (LD B, LD A, AND A) and with an imm16 (LD BC, LD HL, LD [imm16], A)
AdvanceOps == {0, 9, 41, 47, 55, 60, 128, 160, 6, 62, 230, 1, 33, 234}

\* runs of such instructions from power-on
NextAdvance == StepInterruptCheck \/ StepFetchExecute(AdvanceOps)
SpecAdvance == Init /\ [][NextAdvance]_vars

\* the PPU at the moments the STAT sources fire: about to leave mode 2, to
\* leave mode 3, to end line 0, to end line 143 (VBlank starts), to end line
\* 144 and to end line 153 (the frame wraps)
StatMoments ==
    {<<0, 78, "MODE2">>, <<0, 250, "MODE3">>, <<0, 454, "MODE0">>,
     <<143, 454, "MODE0">>, <<144, 454, "MODE1">>, <<153, 454, "MODE1">>}
\* the STAT select bits and the LYC values the program has written
StatSelects ==
    {0, mode_zero_select, mode_one_select, mode_two_select, lyc_select,
     mode_zero_select + mode_one_select + mode_two_select + lyc_select}
StatLycs == {0, 1, 144, 145, 200}
StatTicks == {0, 1, 4, 6}

\* the LCD on, the PPU at one of the moments, STAT and LYC as written
StatInit ==
    /\ CpuNew /\ BusNew /\ TimerNew /\ StepNew
    /\ control = lcd_enable
    /\ \E m \in StatMoments :
          /\ scanline = m[1] /\ cycle = m[2] /\ mode = m[3]
          /\ \E sel \in StatSelects : status = sel + ModeBits(m[3])
    /\ lyc \in StatLycs
    /\ vram = ZeroArray /\ oam = ZeroArray

\* Bus::tick(n) called on its own, n one of ticks
BusTickBy(ticks) ==
    /\ ~panicked /\ steps < MaxAccess
    /\ \E n \in ticks : \E t \in {BusTick(Cur, n)} :
        /\ SetMachine(t.bus)
        /\ frame_ready' = t.ret
        /\ display_result' = t.display
        /\ lcd_interrupt' = t.lcd
        /\ vblank_interrupt' = t.vblank
        /\ timer_interrupt' = t.timer
        /\ joypad_request' = t.joypad
    /\ steps' = steps + 1
    /\ bus_access' = "none"
    /\ UNCHANGED <<at, opcode_num, imm8_read, imm16_read, tick_cycles,
                   panicked, bus_addr, bus_data, read_value, write_log>>

\* runs of ticks across the moments, the program clearing or setting the
\* select bits in between
NextStat == BusTickBy(StatTicks) \/ BusWrite({65345}, {0, 120})
SpecStat == StatInit /\ [][NextStat]_vars

RECURSIVE FrameRuns(_)
\* the set-up sound hardware 7 cycles short of each of the next j + 1
\* frame-sequencer steps: 89 calls of Bus::tick(23) lead from one to the next
FrameRuns(j) ==
    IF j = 0 THEN << MemWrites(SoundOff, SoundSetup) >>
    ELSE CHOOSE r \in {Append(q, BusRun(q[Len(q)], 89, 23)) :
                       q \in {FrameRuns(j - 1)}} : TRUE

\* the sound hardware set up, 7 cycles short of entering each frame step
FrameSeqInit ==
    /\ CpuNew /\ StepNew
    /\ \E q \in {FrameRuns(7)} : \E j \in 1 .. 8 : BusIs(q[j])

\* runs of control-register writes (length off, length on, trigger with the
\* length on), NR52 power-off and power-on writes, envelope writes of period 3
\* and ticks across a frame-sequencer step
NextFrameSeq ==
    \/ BusWrite(ControlAddrs, {0, 64, 199})
    \/ BusWrite({65318}, {15, 143})
    \/ BusWrite({65298, 65303, 65313}, {243})
    \/ BusTickSound
SpecFrameSeq == FrameSeqInit /\ [][NextFrameSeq]_vars

\* the sound hardware set up, 7 cycles short of entering frame steps 0, 1
\* and 2
TriggerInit ==
    /\ CpuNew /\ StepNew
    /\ \E q \in {FrameRuns(2)} : \E j \in 1 .. 3 : BusIs(q[j])

\* runs of control-register writes (length on, trigger, trigger with the
\* length on, and for channel 1 neither and a trigger with period 0x4C1),
\* NR10 writes (add or subtract, shift 1), DAC-off writes, length-timer
\* writes and ticks
NextTrigger ==
    \/ BusWrite(ControlAddrs, {64, 128, 199})
    \/ BusWrite({65300}, {0, 132})
    \/ BusWrite({65296}, {17, 25})
    \/ BusWrite({65298, 65306}, {0})
    \/ BusWrite(LengthTimerAddrs, {255})
    \/ BusTickSound
SpecTrigger == TriggerInit /\ [][NextTrigger]_vars

\* AND, OR, XOR A with B and with an imm8, and XOR A, A
LogicOps == {160, 230, 176, 246, 168, 238, 175}

\* runs of the logical instructions from every A, B in AluBytes and the flags
\* all clear or all set
LogicInit ==
    /\ a \in AluBytes /\ b \in AluBytes
    /\ flags \in {0, zero + subtraction + half_carry + carry}
    /\ c = 0 /\ d = 0 /\ e = 0 /\ h = 0 /\ l = 0
    /\ stack_pointer = 65534 /\ program_counter = 256
    /\ ime = FALSE /\ halted = FALSE /\ prefixed_mode = FALSE
    /\ frame_ready = FALSE /\ cycles = 0
    /\ BusNew /\ TimerNew /\ PpuNew /\ StepNew
NextLogic == StepInterruptCheck \/ StepFetchExecute(LogicOps)
SpecLogic == LogicInit /\ [][NextLogic]_vars

----------------------------------------------------------------------------
(* Claims *)

PendingBits == BitAnd(BitAnd(interrupt_enable, interrupt_flag), 31)
LowestBit(x) ==
    CHOOSE i \in 0 .. 4 : Bit(x, i) = 1 /\ \A j \in 0 .. (i - 1) : Bit(x, j) = 0
InCheck == at = "check" /\ at' = "fetch"
InExecute == at = "fetch" /\ at' = "check"

\* C1: an interrupt check with the CPU not halted dispatches iff IME is set
\* and IE & IF & 0x1F is non-zero; a dispatch clears IME, pushes the PC (high
\* byte at SP-1, low byte at SP-2), jumps to the vector 0x40 + 8k of the
\* lowest pending bit k and clears exactly bit k of IF, IE untouched; with
\* no dispatch PC, SP, IME, halted, IF, IE and memory are unchanged.
C1_DispatchWhenNotHalted ==
    [][ (InCheck /\ ~halted) =>
          IF ime /\ PendingBits # 0
          THEN LET k == LowestBit(PendingBits)
               IN  /\ ime' = FALSE
                   /\ halted' = FALSE
                   /\ stack_pointer' = stack_pointer - 2
                   /\ hram' = [hram EXCEPT
                                 ![stack_pointer - 1 - 65408] = Hi(program_counter),
                                 ![stack_pointer - 2 - 65408] = Lo(program_counter)]
                   /\ program_counter' = 64 + 8 * k
                   /\ interrupt_flag' = interrupt_flag - 2 ^ k
                   /\ interrupt_enable' = interrupt_enable
          ELSE UNCHANGED <<program_counter, stack_pointer, ime, halted,
                           interrupt_flag, interrupt_enable, hram>> ]_vars

\* the LCD interrupt dispatched while the joypad bit stays requested
C1_Witness ==
    /\ at = "fetch" /\ program_counter = 72 /\ ~ime
    /\ stack_pointer = 65532 /\ interrupt_flag = 16
    /\ Word(hram[125], hram[124]) > 256

\* C2: a step taken while halted with no enabled interrupt pending fetches
\* nothing: registers, SP and PC unchanged, halted still true, and the
\* peripherals ticked by exactly one M-cycle.
C2_HaltedStepIdles ==
    [][ (InExecute /\ halted /\ PendingBits = 0) =>
          /\ UNCHANGED <<a, b, c, flags, stack_pointer, program_counter>>
          /\ halted'
          /\ tick_cycles' = 1 ]_vars

\* C3: the interrupt check of a halted CPU with IME clear and an enabled
\* interrupt pending only wakes it: halted becomes false, PC, SP, IME, IF and
\* the stack memory are unchanged.
C3_WakeWithoutDispatch ==
    [][ (InCheck /\ halted /\ ~ime /\ PendingBits # 0) =>
          /\ halted' = FALSE
          /\ UNCHANGED <<program_counter, stack_pointer, ime, interrupt_flag,
                         hram>> ]_vars

\* the IF bits the last Bus::tick requested
RequestedNow ==
    Requested(timer_interrupt, lcd_interrupt, vblank_interrupt, joypad_request)

\* C4: a request a peripheral raises in the Bus::tick that ends a step is
\* not acted on inside that step - every requested bit is still set in IF
\* when the step returns - and the interrupt check that starts the next step is
\* what examines it: with IME set and the bit enabled, that check dispatches.
C4_RequestSeenByNextCheck ==
    [][ /\ InExecute => BitAnd(interrupt_flag', RequestedNow') = RequestedNow'
        /\ (InCheck /\ ime /\ BitAnd(RequestedNow, interrupt_enable) # 0) =>
            /\ ime' = FALSE
            /\ program_counter' \in {64, 72, 80, 88, 96}
            /\ stack_pointer' = stack_pointer - 2 ]_vars

\* a step has just ended whose tick raised the timer and the VBlank request
\* with IME set, and neither was served (a dispatch would have cleared IME)
C4_Witness ==
    /\ at = "check" /\ ime /\ timer_interrupt /\ vblank_interrupt
    /\ BitAnd(interrupt_flag, 5) = 5

CondOps == {194, 202, 210, 218, 32, 40, 48, 56, 196, 204, 212, 220,
            192, 200, 208, 216}
\* the extra M-cycles of a taken branch: JR cc and JP cc 1, CALL cc and RET cc 3
BranchExtra(op) == IF op \in {196, 204, 212, 220, 192, 200, 208, 216} THEN 3 ELSE 1

\* C5: the cycle count a step hands to Bus::tick is the table's base cycles
\* of the opcode plus, for a conditional branch that was taken (the PC did not
\* fall through, or the stack moved), its extra cycles; the accumulator of extras is zero
\* whenever a step starts.
C5_TickCycles ==
    [][ /\ InExecute =>
            LET op == opcode_num'
                fell == /\ program_counter' = (program_counter + OpBytes(op)) % 65536
                        /\ stack_pointer' = stack_pointer
            IN  tick_cycles' = OpCycles(op)
                    + (IF op \in CondOps /\ ~fell THEN BranchExtra(op) ELSE 0)
        /\ at = "check" => cycles = 0
        /\ at' = "check" => cycles' = 0 ]_vars

\* a taken CALL cc (3 + 3 cycles) has been followed by an untaken branch
C5_Witness ==
    /\ at = "check" /\ steps >= 2
    /\ opcode_num \in CondOps /\ tick_cycles = OpCycles(opcode_num)
    /\ stack_pointer = 65532 /\ Word(hram[125], hram[124]) = 259

\* the byte a pop reads at addr: high RAM, or IE at 0xFFFF
StackByte(addr) == IF addr = 65535 THEN interrupt_enable ELSE hram[addr - 65408]

\* C6: the low four bits of F are zero in every reachable state, and POP AF
\* loads A from the high byte and F from the low byte of the popped word with
\* the low nibble cleared (0x1234 gives A = 0x12, F = 0x30).
C6_FlagLowNibbleZero ==
    [][ /\ flags % 16 = 0
        /\ flags' % 16 = 0
        /\ (InExecute /\ opcode_num' = 241) =>
            /\ a' = StackByte(stack_pointer + 1)
            /\ flags' = StackByte(stack_pointer) - (StackByte(stack_pointer) % 16)
            /\ stack_pointer' = (stack_pointer + 2) % 65536 ]_vars

\* POP AF has popped the word 0x1234
C6_Witness ==
    /\ at = "check" /\ opcode_num = 241
    /\ Word(hram[125], hram[124]) = 4660
    /\ a = 18 /\ flags = 48

LcdOn == Contains(control, lcd_enable)
InPpuTick == <<cycle, scanline, mode, display_result>>' # <<cycle, scanline, mode, display_result>>
LineAdvance == scanline' # scanline

\* C7: after any sequence of PPU ticks, each of at most one instruction's
\* cycles, LY is in 0..153 and the mode is VBlank (MODE1) exactly when
\* 144 <= LY <= 153.
C7_LyRangeAndVblankMode ==
    /\ scanline \in 0 .. MAX_SCANLINE
    /\ (mode = "MODE1") <=> (MODE1_START <= scanline /\ scanline <= MAX_SCANLINE)

\* the PPU has run through the ten VBlank lines and is back on line 0
C7_Witness ==
    /\ scanline = 0 /\ mode = "MODE2" /\ cycle <= MaxTick
    /\ Contains(interrupt_flag, vblank)

\* C8: with the LCD running, Bus::tick returns true exactly in the tick that
\* takes LY from 143 to 144; in that tick the mode becomes VBlank and the
\* VBlank bit of IF is set, and no other tick returns true or requests
\* VBlank.  LY only ever steps to the next line modulo 154, so two reports are
\* 154 line advances apart, and while ticks of at least one cycle keep
\* arriving a report happens again and again.
C8_FrameCompleteAtLine144 ==
    /\ [][ /\ LcdOn =>
               LET entered == scanline = MODE1_START - 1 /\ scanline' = MODE1_START
               IN  /\ (frame_ready' /\ InPpuTick) <=> entered
                   /\ (vblank_interrupt' /\ InPpuTick) <=> entered
                   /\ entered => /\ mode' = "MODE1"
                                 /\ Contains(interrupt_flag', vblank)
                                 /\ display_result' = "NewFrame"
                   /\ ~entered => BitAnd(interrupt_flag', vblank)
                                    = BitAnd(interrupt_flag, vblank)
           /\ LineAdvance => scanline' = (scanline + 1) % (MAX_SCANLINE + 1) ]_vars
    /\ []<>(frame_ready /\ scanline = MODE1_START)

\* the tick that entered line 144 with the LCD on has reported the frame
C8_Witness ==
    /\ LcdOn /\ scanline = MODE1_START /\ mode = "MODE1"
    /\ frame_ready /\ vblank_interrupt /\ Contains(interrupt_flag, vblank)
    /\ display_result = "NewFrame"

\* C9: while bit 7 of LCD control is clear the PPU clock is stopped: LY is 0
\* and stays 0, the mode is HBlank (MODE0), and no tick requests the LCD or
\* the VBlank interrupt or reports a frame.
C9_LcdOffStopsPpu ==
    [][ (~LcdOn /\ ~Contains(control', lcd_enable)) =>
          /\ scanline' = 0
          /\ mode' = "MODE0"
          /\ ~lcd_interrupt' /\ ~vblank_interrupt' /\ ~frame_ready' ]_vars

\* C10: with the LCD on, a read of STAT returns the current mode in bits 1-0
\* in every reachable state, and bits 6-3 as they were last written (no write
\* of STAT has happened in these runs: zero).
C10_StatReadsMode ==
    LcdOn => /\ MemRead(Cur, 65345) % 4 = ModeBits(mode)
             /\ (MemRead(Cur, 65345) \div 8) % 16 = 0

\* C11: in the timer scenario (TAC = 0x05, TIMA = 0xFF, TMA = 0x42), once the
\* bus ticks total 16 M-cycles TIMA is 0x42 and the Timer bit is set in IF.
C11_TimerScenario ==
    TotalTicked = 16 => timer_counter = 66 /\ Contains(interrupt_flag, timer)

\* C12: a step aborts with the invalid-opcode failure exactly when the
\* fetched unprefixed opcode is one of D3, DB, DD, E3, E4, EB, EC, ED, F4, FC,
\* FD; every other byte (the CB prefix and JP HL = E9 among them) decodes and
\* executes.
C12_InvalidOpcodeAbort ==
    [][ (at = "fetch" /\ (at' = "check" \/ panicked')) =>
          (panicked' <=> opcode_num' \in {211, 219, 221, 227, 228, 235, 236,
                                           237, 244, 252, 253}) ]_vars

\* a call of Bus::mem_read or Bus::mem_write made in this step
InBusAccess == steps' = steps + 1 /\ bus_access' # "none"
InBusRead == InBusAccess /\ bus_access' = "read"
InBusWrite == InBusAccess /\ bus_access' = "write"
\* the memories and registers behind the bus
BusState == <<busVars, timerVars, ppuVars>>

\* C13: a read or write of a serial register (FF01, FF02) or of a PPU
\* register (FF40 .. FF4B; SCY, SCX, BGP, WY and WX can be read) never aborts,
\* and a write to LY (FF44) leaves the machine as it was.
C13_MappedAccessNeverAborts ==
    [][ (InBusAccess /\ bus_addr' \in (65281 .. 65282) \cup (65344 .. 65355)) =>
            /\ ~panicked'
            /\ (InBusWrite /\ bus_addr' = 65348) => UNCHANGED BusState ]_vars

\* C14: a read of an echo address a in E000 .. FDFF returns the work RAM
\* byte at a - 0x2000, a write to it stores the byte where a read of
\* a - 0x2000 finds it, and neither aborts.
C14_EchoMirrorsWorkRam ==
    [][ \A addr \in EchoAddrs : (InBusAccess /\ bus_addr' = addr) =>
            /\ ~panicked'
            /\ InBusRead => read_value' = MemRead(Cur, addr - 8192)
            /\ InBusWrite => MemRead(Cur, addr - 8192)' = bus_data' ]_vars

C16_IfIeUpperBitsReadOne ==
    (bus_access = "read" /\ ~panicked /\ bus_addr \in {65295, 65535}) =>
        /\ read_value \div 32 = 7
        /\ read_value % 32 =
              IF bus_addr = 65295 THEN interrupt_flag ELSE interrupt_enable

\* C17: a conditional JP, JR, CALL or RET whose opcode has k in bits 4-3
\* (0 NZ, 1 Z, 2 NC, 3 C) branches iff condition k holds on the flags it
\* starts with; when it does not branch the PC moves to the next instruction
\* and SP and the stack are as before.
C17_BranchTakenIffCondition ==
    [][ (InExecute /\ opcode_num' \in CondOps) =>
            LET op == opcode_num'
                k == (op \div 8) % 4
                holds == CASE k = 0 -> ~Contains(flags, zero)
                           [] k = 1 -> Contains(flags, zero)
                           [] k = 2 -> ~Contains(flags, carry)
                           [] k = 3 -> Contains(flags, carry)
                fell == /\ program_counter' = (program_counter + OpBytes(op)) % 65536
                        /\ stack_pointer' = stack_pointer
                        /\ hram' = hram /\ interrupt_enable' = interrupt_enable
            IN  holds <=> ~fell ]_vars

\* the register pair of a PUSH or POP opcode, and the PUSH and POP opcodes of
\* the pair k
PairOf(s, op) == R16stkRead(s, OpReg1(op))
PushOf(k) == 197 + 16 * k
PopOf(k) == 193 + 16 * k

\* C18: PUSH rr lowers SP by 2, leaves the high byte of rr at the new SP + 1
\* and the low byte at the new SP, and does not change rr; POP rr loads rr
\* with the word at SP (AF with the word and 0xFFF0) and raises SP by 2, as a
\* u16; a POP rr that follows a PUSH rr finds rr as the PUSH left it and puts
\* SP back.
C18_PushPopRoundTrip ==
    [][ \A k \in 0 .. 3 :
        /\ (InExecute /\ opcode_num' = PushOf(k)) =>
              /\ stack_pointer' = stack_pointer - 2
              /\ MemRead(Cur, stack_pointer + 1)' = Hi(PairOf(Cur, PushOf(k)))
              /\ MemRead(Cur, stack_pointer)' = Lo(PairOf(Cur, PushOf(k)))
              /\ PairOf(Cur, PushOf(k))' = PairOf(Cur, PushOf(k))
        /\ (InExecute /\ opcode_num' = PopOf(k)) =>
              /\ PairOf(Cur, PopOf(k))' =
                    IF k = 3 THEN BitAnd(MemReadU16(Cur, stack_pointer), 65520)
                    ELSE MemReadU16(Cur, stack_pointer)
              /\ stack_pointer' = (stack_pointer + 2) % 65536
        /\ (InExecute /\ opcode_num = PushOf(k) /\ steps > 0
                      /\ opcode_num' = PopOf(k)) =>
              /\ PairOf(Cur, PopOf(k))' = PairOf(Cur, PopOf(k))
              /\ stack_pointer' = stack_pointer + 2 ]_vars

\* HL = 0xABCD has gone through PUSH HL; POP HL on a stack in work RAM
C18_Witness ==
    /\ at = "check" /\ opcode_num = 225 /\ steps = 4
    /\ stack_pointer = 53248 /\ h = 171 /\ l = 205
    /\ Load(cpu_ram, 4095) = 171 /\ Load(cpu_ram, 4094) = 205

CarryIn == IF Contains(flags, carry) THEN 1 ELSE 0

\* C19: ADD / ADC leave in A (a + b + cin) mod 256 with Z = (result = 0),
\* N = 0, H = ((a & 0xF) + (b & 0xF) + cin > 0xF), C = (a + b + cin > 0xFF);
\* SUB / SBC leave (a - b - bin) mod 256 with Z = (result = 0), N = 1,
\* H = ((a & 0xF) < (b & 0xF) + bin), C = (a < b + bin); CP sets the flags of
\* SUB and leaves A alone.  cin / bin is the carry flag for ADC / SBC, else 0.
C19_AluFlags ==
    [][ (InExecute /\ opcode_num' \in AluOps) =>
          LET op == opcode_num'
              cin == IF op \in {136, 152} THEN CarryIn ELSE 0
              sum == a + b + cin
              diff == a - b - cin
          IN  IF op \in {128, 136}
              THEN /\ a' = sum % 256
                   /\ flags' = FlagByte(sum % 256 = 0, FALSE,
                                        (a % 16) + (b % 16) + cin > 15, sum > 255)
              ELSE /\ a' = IF op = 184 THEN a ELSE (diff + 256) % 256
                   /\ flags' = FlagByte((diff + 256) % 256 = 0, TRUE,
                                        (a % 16) < (b % 16) + cin, diff < 0) ]_vars

\* A = 0x01 plus B = 0xFF has given A = 0x00 with Z, H and C set
C19_Witness ==
    /\ at = "check" /\ steps = 1 /\ opcode_num = 128
    /\ b = 255 /\ a = 0 /\ flags = zero + half_carry + carry

\* C20: ADD SP, e8 leaves in SP, and LD HL, SP + e8 in HL, the sum of SP and
\* the sign-extended e8 modulo 2^16, with H the carry out of bit 3 and C the
\* carry out of bit 7 of SP's low byte plus the byte e8, and Z = N = 0;
\* LD HL, SP + e8 leaves SP as it was.
C20_SpPlusE8 ==
    [][ (InExecute /\ opcode_num' \in SpOps) =>
          LET e8 == imm8_read'
              sum == (stack_pointer + 65536 + AsI8(e8)) % 65536
              lo == stack_pointer % 256
          IN  /\ flags' = FlagByte(FALSE, FALSE, (lo % 16) + (e8 % 16) > 15,
                                   lo + e8 > 255)
              /\ opcode_num' = 232 => stack_pointer' = sum
              /\ opcode_num' = 248 =>
                    Word(h', l') = sum /\ stack_pointer' = stack_pointer ]_vars

\* LD HL, SP + 0xF1 at SP = 0xFFFE has given HL = 0xFFEF with only C set
C20_Witness ==
    /\ at = "check" /\ steps = 1 /\ opcode_num = 248 /\ imm8_read = 241
    /\ stack_pointer = 65534 /\ h = 255 /\ l = 239 /\ flags = carry

\* C21 (as the code has it): LD HL, SP + e8 with SP = 0xFFF8 and e8 = 0x02
\* gives HL = 0xFFFA with Z, N, H and C clear; with SP = 0xFF00 and e8 = 0xFF
\* it gives HL = 0xFEFF with Z, N, H and C clear, the low-byte sum 0x00 + 0xFF
\* having no carry out of bit 3 or bit 7.
C21_LdHlSpScenario ==
    [][ (InExecute /\ opcode_num' = 248) =>
          /\ (stack_pointer = 65528 /\ imm8_read' = 2) =>
                Word(h', l') = 65530 /\ flags' = 0
          /\ (stack_pointer = 65280 /\ imm8_read' = 255) =>
                Word(h', l') = 65279 /\ flags' = 0 ]_vars

\* C21 as stated: the second case ends with H and C set
C21_AsStated ==
    [][ (InExecute /\ opcode_num' = 248) =>
          /\ (stack_pointer = 65528 /\ imm8_read' = 2) =>
                Word(h', l') = 65530 /\ flags' = 0
          /\ (stack_pointer = 65280 /\ imm8_read' = 255) =>
                Word(h', l') = 65279 /\ flags' = half_carry + carry ]_vars

\* LD HL, SP + 0xFF at SP = 0xFF00, entered with Z, N and C set, has given
\* HL = 0xFEFF
C21_Witness ==
    /\ at = "check" /\ steps = 1 /\ opcode_num = 248 /\ imm8_read = 255
    /\ stack_pointer = 65280 /\ h = 254 /\ l = 255

\* a packed-BCD byte, the number 0..99 it encodes, and the encoding of one
IsBcd(x) == x % 16 <= 9 /\ x \div 16 <= 9
BcdValue(x) == (x \div 16) * 10 + (x % 16)
ToBcd(n) == (n \div 10) * 16 + (n % 10)

\* C22: for packed-BCD bytes a and b, DAA after ADD A, b leaves A the packed
\* BCD of (a + b) mod 100 with C set iff a + b >= 100, and DAA after
\* SUB A, b leaves A the packed BCD of (a - b) mod 100 with C set iff a < b;
\* Z tells whether the final A is zero and H is clear.  The A before the
\* ADD or SUB is the A after it minus or plus B, modulo 256.
C22_DaaBcd ==
    [][ (InExecute /\ opcode_num' = 39 /\ opcode_num \in {128, 144}) =>
          LET a0 == IF opcode_num = 128 THEN (a + 256 - b) % 256
                    ELSE (a + b) % 256
              va == BcdValue(a0)
              vb == BcdValue(b)
          IN  (IsBcd(a0) /\ IsBcd(b)) =>
                /\ opcode_num = 128 =>
                      /\ a' = ToBcd((va + vb) % 100)
                      /\ Contains(flags', carry) <=> va + vb >= 100
                /\ opcode_num = 144 =>
                      /\ a' = ToBcd((va + 100 - vb) % 100)
                      /\ Contains(flags', carry) <=> va < vb
                /\ Contains(flags', zero) <=> a' = 0
                /\ ~Contains(flags', half_carry) ]_vars

\* 0x58 + 0x85 then DAA has given 0x43 with C set: the ADD left 0xDD
C22_Witness ==
    /\ at = "check" /\ steps = 2 /\ opcode_num = 39
    /\ b = 133 /\ a = 67 /\ flags = carry

\* a step that fetches a load, to its end or to a panic
InLoad ==
    /\ at = "fetch" /\ ~panicked /\ opcode_num' \in LoadOps
    /\ at' = "check" \/ panicked'
\* the bytes after the opcode, as an address
ImmAddr == Word(imm16_read[2], imm16_read[1])
\* what each load copies, and what it does to HL and the PC
LoadEffect ==
    LET op == opcode_num'
        hl == Word(h, l)
    IN  /\ op = 120 => a' = b
        /\ op = 79 => c' = a
        /\ op = 126 => a' = MemRead(Cur, hl)
        /\ op = 112 => MemRead(Cur, Word(h, l))' = b
        /\ op = 6 => b' = imm8_read'
        /\ op = 54 => MemRead(Cur, Word(h, l))' = imm8_read'
        /\ op = 1 => /\ b' = imm16_read'[2] /\ c' = imm16_read'[1]
                     /\ imm16_read' = <<52, 18>> => Word(b', c') = 4660
        /\ op = 49 => stack_pointer' = imm16_read'[2] * 256 + imm16_read'[1]
        /\ op \in {1, 49} => program_counter' = (program_counter + 3) % 65536
        /\ op = 249 => stack_pointer' = hl
        /\ op = 8 => /\ MemRead(Cur, ImmAddr)' = Lo(stack_pointer)
                     /\ MemRead(Cur, ImmAddr + 1)' = Hi(stack_pointer)
        /\ op = 250 => a' = MemRead(Cur, ImmAddr')
        /\ op = 234 => MemRead(Cur, ImmAddr)' = a
        /\ op = 18 => MemRead(Cur, Word(d, e))' = a
        /\ op = 26 => a' = MemRead(Cur, Word(d, e))
        /\ op \in {34, 50} => \E addr \in {hl} : MemRead(Cur, addr)' = a
        /\ op \in {42, 58} => a' = MemRead(Cur, hl)
        /\ op \in {34, 42} => Word(h', l') = (hl + 1) % 65536
        /\ op \in {50, 58} => Word(h', l') = (hl + 65535) % 65536

\* C23: every load copies its source to its destination and leaves the flags
\* as they were; LD r16, imm16 loads the little-endian immediate and advances
\* the PC by 3 (01 34 12 gives BC = 0x1234); the [HL+] and [HL-] forms use
\* the old HL as the address and then add 1 to or subtract 1 from HL.
C23_LoadsCopy ==
    [][ InLoad => (~panicked' /\ flags' = flags /\ LoadEffect) ]_vars

\* the four channels of the APU p, in the order of the NR52 bits 0 .. 3
Channels(p) == <<p.square1, p.square2, p.wave, p.noise>>

\* every enabled channel of p has its DAC on and length left
EnabledSound(p) ==
    \A i \in 1 .. 4 :
        Channels(p)[i].enabled =>
            /\ Channels(p)[i].dac_on
            /\ Channels(p)[i].length_counter.counter > 0

\* C24: in every state each enabled channel has its DAC on and a length
\* counter above zero; a read of NR52 (FF26) returns the enabled flags of
\* channels 1 .. 4 in bits 0 .. 3, the power bit in bit 7 and ones in bits
\* 6 .. 4; a write to NR52 leaves the four flags as they were when bit 7 of
\* the data is set and clears them (the power-down) when it is clear,
\* whatever bits 3 .. 0 of the data are.
C24_ChannelStatus ==
    [][ /\ EnabledSound(apu) /\ EnabledSound(apu')
        /\ (InBusRead /\ bus_addr' = 65318) =>
              /\ (read_value' \div 128 = 1) <=> apu.audio_on
              /\ (read_value' \div 16) % 8 = 7
              /\ \A i \in 1 .. 4 :
                    ((read_value' \div (2 ^ (i - 1))) % 2 = 1)
                        <=> Channels(apu)[i].enabled
        /\ (InBusWrite /\ bus_addr' = 65318) =>
              \A i \in 1 .. 4 :
                  Channels(apu')[i].enabled
                      <=> (Channels(apu)[i].enabled /\ bus_data' >= 128)
      ]_vars

\* NR52 is read as 0xFE once the length of channel 1 has run out at frame
\* step 0 with its DAC still on and the other three channels playing
C24_Witness ==
    /\ bus_access = "read" /\ bus_addr = 65318 /\ read_value = 254
    /\ apu.frame = 0
    /\ apu.square1.dac_on /\ apu.square1.length_counter.counter = 0
    /\ apu.square1.length_counter.enabled

\* the sweep, duty, envelope, period and control registers of the four
\* channels of p and NR50 / NR51 hold zero
RegistersZero(p) ==
    /\ SquareSweepRead(p.square1) = 128
    /\ p.square1.wave_pattern = 0 /\ p.square2.wave_pattern = 0
    /\ EnvelopeRead(p.square1.envelope) = 0
    /\ EnvelopeRead(p.square2.envelope) = 0
    /\ EnvelopeRead(p.noise.envelope) = 0
    /\ \A i \in 1 .. 4 : ~Channels(p)[i].length_counter.enabled
    /\ \A i \in 1 .. 3 : Channels(p)[i].period = 0
    /\ p.volume = 0 /\ p.sound_panning = 0

\* the length counters of the four channels of p
LengthCounters(p) ==
    [i \in 1 .. 4 |-> Channels(p)[i].length_counter.counter]

\* C25: a write to NR52 with bit 7 clear leaves the sweep, duty, envelope,
\* period and control registers of every channel and NR50 / NR51 at zero and
\* every channel disabled, the length counters and wave RAM as they were;
\* with the APU off a write to a register FF10 .. FF25 that is not a length
\* timer changes nothing in the APU; a write of bit 7 set with the APU off
\* sets the frame step to 7, both duty steps and the wave position to 0 and
\* turns the APU on, after which a write to NR12, NR50 or NR51 is stored.
C25_PowerCycle ==
    [][ /\ (InBusWrite /\ bus_addr' = 65318 /\ bus_data' < 128) =>
              /\ RegistersZero(apu')
              /\ \A i \in 1 .. 4 : ~Channels(apu')[i].enabled
              /\ LengthCounters(apu') = LengthCounters(apu)
              /\ apu'.wave.wave_ram = apu.wave.wave_ram
        /\ (/\ InBusWrite /\ ~apu.audio_on
            /\ bus_addr' \in ApuRegisters \ ({65318} \cup LengthTimerAddrs)) =>
              apu' = apu
        /\ (InBusWrite /\ ~apu.audio_on /\ bus_addr' = 65318
                /\ bus_data' >= 128) =>
              /\ apu'.audio_on /\ apu'.frame = 7
              /\ apu'.square1.duty_step = 0 /\ apu'.square2.duty_step = 0
              /\ apu'.wave.position = 0
        /\ (InBusWrite /\ apu.audio_on /\ bus_addr' = 65298) =>
              EnvelopeRead(apu'.square1.envelope) = bus_data'
        /\ (InBusWrite /\ apu.audio_on /\ bus_addr' = 65316) =>
              apu'.volume = bus_data'
        /\ (InBusWrite /\ apu.audio_on /\ bus_addr' = 65317) =>
              apu'.sound_panning = bus_data'
      ]_vars

\* the byte last written to lo .. hi according to log, dflt if there is none
LastWritten(log, lo, hi, dflt) ==
    LET idx == {i \in 1 .. Len(log) : log[i][1] \in lo .. hi}
    IN  IF idx = {} THEN dflt
        ELSE log[CHOOSE i \in idx : \A j \in idx : j <= i][2]

\* the ROM bank the MBC1 registers select for 4000-7FFF: the low 5 bits last
\* written to 2000-3FFF, 0 replaced by 1 (1 at power-on), under the 2 bits
\* last written to 4000-5FFF
Mbc1Selected(log) ==
    LET low5 == LastWritten(log, 8192, 16383, 1) % 32
        upper == LastWritten(log, 16384, 24575, 0) % 4
    IN  upper * 32 + (IF low5 = 0 THEN 1 ELSE low5)

\* C26: on an MBC1 cartridge a read of 0000-7FFF never aborts, and a read of
\* 4000-7FFF returns the byte of ROM bank ((upper << 5) | low5) modulo the
\* number of banks of the cartridge.
C26_Mbc1RomBank ==
    [][ (InBusRead /\ cart.kind = "Mbc1" /\ bus_addr' < 32768) =>
          /\ ~panicked'
          /\ bus_addr' >= 16384 =>
                read_value' =
                    Mbc1Selected(write_log) % (cart.rom_size \div (16 * KIB))
      ]_vars

\* cartridge RAM is enabled: the last write to 0000-1FFF had low nibble 0xA
RamEnabled(log) == LastWritten(log, 0, 8191, 0) % 16 = 10

\* C27: on an MBC1 or MBC3 cartridge a write to A000-BFFF while RAM is
\* disabled leaves every cartridge RAM byte unchanged, and on a cartridge
\* with no RAM no access to A000-BFFF aborts.
C27_RamGate ==
    [][ (InBusAccess /\ bus_addr' \in 40960 .. 49151) =>
          /\ (/\ bus_access' = "write"
              /\ cart.kind \in {"Mbc1", "Mbc3"}
              /\ ~RamEnabled(write_log))
                => cart'.cartridge_ram = cart.cartridge_ram
          /\ cart.ram_size = 0 => ~panicked'
      ]_vars

\* the RTC registers of an MBC3 cartridge
RtcBytes(m) ==
    <<m.rtc_s, m.rtc_m, m.rtc_h, m.rtc_dl, m.rtc_day_upper, m.rtc_halt,
      m.rtc_carry>>

\* a write of 0x01 to 6000-7FFF whose previous write to 6000-7FFF was 0x00
LatchSequence(log, data) ==
    data = 1 /\ LastWritten(log, 24576, 32767, 255) = 0

At(now) == [Cur EXCEPT !.host_clock = now]

\* the state of the emulator in s: everything but the host's clock
Emulated(s) == [s EXCEPT !.host_clock = HostStart]

\* the state of the emulator in s apart from the latched time of an MBC3
Unlatched(s) ==
    [Emulated(s) EXCEPT !.cart =
        IF @.kind = "Mbc3"
        THEN [@ EXCEPT !.rtc_s = 0, !.rtc_m = 0, !.rtc_h = 0, !.rtc_dl = 0,
                       !.rtc_day_upper = FALSE]
        ELSE @]

\* the bus writes, reads and ticks whose results are compared
ProbeWrites ==
    {<<24576, 0>>, <<24576, 1>>, <<32767, 1>>, <<32767, 2>>, <<16384, 8>>,
     <<8192, 3>>, <<49152, 33>>, <<65408, 33>>}
ProbeReads == {0, 16384, 49152, 65408}
ProbeTicks == {4}

\* what a read, a tick or the write w does to the emulator is the same under
\* the host clocks c1 and c2
SameStep(w, c1, c2) ==
    /\ Emulated(MemWrite(At(c1), w[1], w[2]))
          = Emulated(MemWrite(At(c2), w[1], w[2]))
    /\ \A addr \in ProbeReads : MemRead(At(c1), addr) = MemRead(At(c2), addr)
    /\ \A n \in ProbeTicks :
          Emulated(BusTick(At(c1), n).bus) = Emulated(BusTick(At(c2), n).bus)

\* C29 as stated: no state of the emulator depends on anything but the ROM
\* and the input events, so in every state every bus write, read and tick
\* has the same result whatever the host's clock reads.
C29_Deterministic ==
    \A w \in ProbeWrites : \A c1, c2 \in HostClocks : SameStep(w, c1, c2)

\* C29 amended: the emulator's state depends on the ROM, the input events
\* and the host clock latched by an MBC3 only: a write of 0x01 to 6000-7FFF
\* that follows a 0x00 gives RTC bytes that depend on the host's clock and
\* changes nothing else differently, and every other bus write, every read
\* and every tick has the same result whatever the host's clock reads.
C29_ClockOnlyLatched ==
    \A w \in ProbeWrites : \A c1, c2 \in HostClocks :
        /\ Unlatched(MemWrite(At(c1), w[1], w[2]))
              = Unlatched(MemWrite(At(c2), w[1], w[2]))
        /\ \/ /\ cart.kind = "Mbc3" /\ w[1] \in 24576 .. 32767
              /\ LatchSequence(write_log, w[2])
           \/ SameStep(w, c1, c2)

\* an MBC3 armed by a 0x00 after the host clock has moved: the write of 0x01
\* gives other RTC bytes under another clock
C29_Witness ==
    /\ cart.kind = "Mbc3" /\ LatchSequence(write_log, 1)
    /\ host_clock # HostStart
    /\ Emulated(MemWrite(At(host_clock), 24576, 1))
          # Emulated(MemWrite(At(HostStart), 24576, 1))

\* C30: a CB prefix and the opcode byte after it execute as a pair that no
\* interrupt splits: the step that fetches CB sets the prefix-pending flag
\* and does not abort; when the flag is set at the start of a step, the
\* interrupt check of that step leaves PC, SP and IME unchanged, and the flag
\* is clear when the step ends.
C30_PrefixAtomic ==
    [][ /\ (/\ at = "fetch" /\ ~prefixed_mode /\ opcode_num' = 203
            /\ (at' = "check" \/ (panicked' /\ ~panicked)))
              => (~panicked' /\ prefixed_mode')
        /\ (at = "check" /\ prefixed_mode /\ at' = "fetch")
              => /\ program_counter' = program_counter
                 /\ stack_pointer' = stack_pointer
                 /\ ime' = ime
        /\ (at = "fetch" /\ prefixed_mode /\ at' = "check")
              => ~prefixed_mode'
      ]_vars

\* the number of immediate operand bytes that follow the opcode byte
OperandBytes(op) ==
    CASE op \in {6, 62, 230} -> 1
      [] op \in {1, 33, 234} -> 2
      [] OTHER -> 0

\* C31: a step that executes an unprefixed instruction which does not
\* transfer control advances PC by 1 plus the number of immediate operand
\* bytes of the instruction.
C31_PcAdvance ==
    [][ (at = "fetch" /\ at' = "check" /\ opcode_num' \in AdvanceOps) =>
            program_counter' =
                (program_counter + 1 + OperandBytes(opcode_num')) % 65536
      ]_vars

\* C32: after every Timer::tick no whole period is left undelivered: the DIV
\* sub-counter is below the DIV period and, while TAC is enabled, the TIMA
\* sub-counter is below the period TAC selects, also after a tick in which
\* TIMA overflowed.
C32_TimerDrained ==
    /\ divider_cycle < TIMER_CYCLES[4]
    /\ tac_enable => timer_cycle < TIMER_CYCLES[tac_clock + 1]

\* a call of Bus::tick made on its own in this step
InBusTick == steps' = steps + 1 /\ bus_access' = "none"

\* in this step LY changed to LYC with the LYC source selected
LyEdge ==
    scanline' # scanline /\ scanline' = lyc /\ Contains(status, lyc_select)

\* in this step the mode changed into mode 0, 1 or 2 with its source selected
ModeEdge ==
    /\ mode' # mode
    /\ \/ mode' = "MODE0" /\ Contains(status, mode_zero_select)
       \/ mode' = "MODE1" /\ Contains(status, mode_one_select)
       \/ mode' = "MODE2" /\ Contains(status, mode_two_select)

\* C33: a tick requests the LCD interrupt iff in that tick LY changed to LYC
\* with the LYC select bit set or the mode changed into mode 0, 1 or 2 with
\* that mode's select bit set; the LCD bit of IF is set by the tick exactly
\* then, never with the four select bits clear, and not by entering mode 3.
C33_StatInterrupt ==
    [][ InBusTick =>
          /\ lcd_interrupt' <=> (LyEdge \/ ModeEdge)
          /\ Contains(interrupt_flag', lcd)
                <=> (Contains(interrupt_flag, lcd) \/ LyEdge \/ ModeEdge)
          /\ BitAnd(status, 120) = 0 => ~lcd_interrupt'
          /\ (mode' = "MODE3" /\ mode # "MODE3" /\ ~LyEdge) => ~lcd_interrupt'
      ]_vars

\* the LYC source fired inside VBlank: line 145 reached with LYC = 145, no
\* mode change, and the LCD bit of IF set
C33_Witness ==
    /\ steps > 0 /\ bus_access = "none"
    /\ scanline = 145 /\ lyc = 145 /\ mode = "MODE1"
    /\ BitAnd(status, 120) = lyc_select
    /\ lcd_interrupt /\ Contains(interrupt_flag, lcd)

\* the APU ticks made since power-on (Bus::tick gives the timer and the APU
\* the same cycles) reach a multiple of 2048 in this step
FrameStepDue == TotalTicked' \div 2048 # TotalTicked \div 2048

\* C34: the frame-sequencer step advances by one modulo 8 exactly once every
\* 2048 ticks of the APU: a tick advances it iff it is tick number 2048 * n
\* since power-on.
C34_FrameEvery2048 ==
    [][ InBusTick =>
          IF FrameStepDue THEN apu'.frame = (apu.frame + 1) % 8
          ELSE apu'.frame = apu.frame
      ]_vars

\* the frame step entered by this step, or -1 when the sequencer stays
StepEntered == IF apu'.frame # apu.frame THEN apu'.frame ELSE -1

\* the length counter of channel ch2 is that of ch1, clocked when clk
LengthClocked(ch1, ch2, clk) ==
    ch2.length_counter.counter =
        IF clk /\ ch1.length_counter.enabled /\ ch1.length_counter.counter > 0
        THEN ch1.length_counter.counter - 1
        ELSE ch1.length_counter.counter

\* the sweep of channel ch2 is that of ch1, its timer clocked when clk
SweepClocked(ch1, ch2, clk) ==
    IF clk
    THEN ch2.sweep.counter = IF ch1.sweep.counter > 1 THEN ch1.sweep.counter - 1
                           ELSE IF ch1.sweep.period = 0 THEN 8
                           ELSE ch1.sweep.period
    ELSE ch2.sweep = ch1.sweep

\* the envelope of channel ch2 is that of ch1, clocked when clk
EnvelopeClocked(ch1, ch2, clk) ==
    IF clk /\ ch1.envelope.period # 0
    THEN IF ch1.envelope.counter > 1
         THEN /\ ch2.envelope.counter = ch1.envelope.counter - 1
              /\ ch2.envelope.volume = ch1.envelope.volume
         ELSE /\ ch2.envelope.counter = ch1.envelope.period
              /\ ch2.envelope.volume =
                    IF ch1.envelope.mode
                    THEN IF ch1.envelope.volume < 15 THEN ch1.envelope.volume + 1
                         ELSE 15
                    ELSE IF ch1.envelope.volume > 0 THEN ch1.envelope.volume - 1
                         ELSE 0
    ELSE ch2.envelope = ch1.envelope

\* C35: the frame-sequencer step stays in 0..7 and a tick leaves it or moves
\* it to the next step modulo 8; a tick that enters a step clocks the four
\* length counters exactly for steps 0, 2, 4 and 6, the channel-1 sweep
\* exactly for steps 2 and 6 and the three envelopes exactly for step 7, and
\* a tick that enters step 1, 3 or 5, or no step, clocks none of them.
C35_FrameSteps ==
    [][ /\ apu'.frame \in 0 .. 7
        /\ InBusTick =>
            /\ apu'.frame \in {apu.frame, (apu.frame + 1) % 8}
            /\ \A len \in {StepEntered \in {0, 2, 4, 6}} :
                /\ LengthClocked(apu.square1, apu'.square1, len)
                /\ LengthClocked(apu.square2, apu'.square2, len)
                /\ LengthClocked(apu.wave, apu'.wave, len)
                /\ LengthClocked(apu.noise, apu'.noise, len)
            /\ SweepClocked(apu.square1, apu'.square1, StepEntered \in {2, 6})
            /\ \A env \in {StepEntered = 7} :
                /\ EnvelopeClocked(apu.square1, apu'.square1, env)
                /\ EnvelopeClocked(apu.square2, apu'.square2, env)
                /\ EnvelopeClocked(apu.noise, apu'.noise, env)
      ]_vars

\* a tick has entered step 7 and an envelope clock has lowered the volume of
\* channel 1 from 15
C35_Witness ==
    /\ bus_access = "none" /\ steps > 0
    /\ apu.frame = 7 /\ apu.frame_seq_cycles < 7
    /\ apu.square1.envelope.period = 3
    /\ apu.square1.envelope.volume = 14

\* the channel of p whose control register NRx4 is at addr
ChannelAt(p, addr) ==
    CASE addr = 65300 -> p.square1
      [] addr = 65305 -> p.square2
      [] addr = 65310 -> p.wave
      [] addr = 65315 -> p.noise

\* this step writes NRx4 with length-enable going from off to on while the
\* next frame-sequencer step is one that does not clock length
ExtraClockDue ==
    /\ ~ChannelAt(apu, bus_addr').length_counter.enabled
    /\ (bus_data' \div 64) % 2 = 1
    /\ (apu.frame + 1) % 8 \notin {0, 2, 4, 6}

\* C36: a write to NRx4 with the sound hardware on clocks the channel's
\* length counter once (one less if non-zero, and the channel off when that
\* reaches zero) exactly when length-enable goes from off to on and the next
\* frame-sequencer step does not clock length; any other write leaves the
\* counter as it was.  A trigger in the same write may reload a counter
\* that is zero after that.
C36_ExtraLengthClock ==
    [][ (InBusWrite /\ bus_addr' \in {65300, 65305, 65310, 65315}
            /\ apu.audio_on) =>
          \A k0 \in {ChannelAt(apu, bus_addr').length_counter.counter} :
          \A k1 \in {IF ExtraClockDue /\ k0 > 0 THEN k0 - 1 ELSE k0} :
            /\ (bus_data' < 128 \/ k1 # 0) =>
                 ChannelAt(apu', bus_addr').length_counter.counter = k1
            /\ (bus_data' < 128 /\ ExtraClockDue /\ k0 = 1) =>
                 ~ChannelAt(apu', bus_addr').enabled
      ]_vars

\* the largest length of the channel whose control register is at addr
MaxLength(addr) == IF addr = 65310 THEN 256 ELSE 64

\* this step writes a control register NRx4 with bit 7 set while the sound
\* hardware is on
InTrigger ==
    /\ InBusWrite /\ bus_addr' \in {65300, 65305, 65310, 65315}
    /\ bus_data' >= 128 /\ apu.audio_on

\* this step writes NRx4 with length-enable going from off to on
LengthRising ==
    /\ ~ChannelAt(apu, bus_addr').length_counter.enabled
    /\ (bus_data' \div 64) % 2 = 1

\* C37 as stated: a trigger of a channel whose length counter is zero
\* reloads the counter to 64 (square, noise) or 256 (wave), a trigger with a
\* non-zero counter (and no length-enable edge in the same write) leaves it
\* unchanged, and the channel is enabled after the trigger iff its DAC is on.
C37_TriggerReloadsMax ==
    [][ InTrigger =>
          \A k0 \in {ChannelAt(apu, bus_addr').length_counter.counter} :
            /\ k0 = 0 =>
                 ChannelAt(apu', bus_addr').length_counter.counter =
                     MaxLength(bus_addr')
            /\ (k0 # 0 /\ ~LengthRising) =>
                 ChannelAt(apu', bus_addr').length_counter.counter = k0
            /\ ChannelAt(apu', bus_addr').enabled =
                 ChannelAt(apu', bus_addr').dac_on
      ]_vars

\* the sweep overflow check of a trigger of channel 1 with the period the
\* write leaves exceeds 0x7FF
TriggerOverflows ==
    /\ bus_addr' = 65300 /\ apu.square1.sweep.shift # 0
    /\ apu.square1.sweep.direction
    /\ apu'.square1.period +
         (apu'.square1.period \div (2 ^ apu.square1.sweep.shift)) > 2047

\* C37 (amended): a trigger of a channel whose length counter is zero at the
\* trigger (after the extra length clock of the same write, if any) reloads
\* it to 64 (square, noise) or 256 (wave), or to one less when length-enable
\* is on after the write and the channel's next_frame_no_clock flag is set; a
\* trigger with a non-zero counter leaves it unchanged; the channel is
\* enabled after the trigger iff its DAC is on, except that channel 1 is
\* off when the trigger's sweep overflow check exceeds 0x7FF.
C37_TriggerReload ==
    [][ InTrigger =>
          \A k0 \in {ChannelAt(apu, bus_addr').length_counter.counter} :
          \A flag \in {ChannelAt(apu, bus_addr').length_counter
                            .next_frame_no_clock} :
          \A k1 \in {IF LengthRising /\ flag /\ k0 > 0 THEN k0 - 1 ELSE k0} :
            /\ ChannelAt(apu', bus_addr').length_counter.counter =
                 IF k1 # 0 THEN k1
                 ELSE IF (bus_data' \div 64) % 2 = 1 /\ flag
                 THEN MaxLength(bus_addr') - 1
                 ELSE MaxLength(bus_addr')
            /\ ChannelAt(apu', bus_addr').enabled =
                 (ChannelAt(apu', bus_addr').dac_on /\ ~TriggerOverflows)
      ]_vars

\* from step 0 with channel 1's length counter run out and its length
\* enabled, a trigger has reloaded the counter to 63
C37_Witness ==
    /\ steps = 1 /\ bus_access = "write" /\ bus_addr = 65300
    /\ bus_data = 199 /\ apu.frame = 0
    /\ apu.square1.length_counter.counter = 63
    /\ apu.square1.enabled

\* channel ch1 has become ch2 over n of its ticks, and when its duty step or
\* wave position (pos1, then pos2) advanced, the divider was reloaded to
\* 0x800 - period at the underflow and has counted the remaining ticks
DividerReloaded(ch1, ch2, pos1, pos2, n) ==
    pos2 # pos1 =>
        ch2.period_divider =
            (2048 - ch1.period)
            - (n - (IF ch1.period_divider = 0 THEN 1 ELSE ch1.period_divider))

\* C38: the period dividers of the square and wave channels count down from
\* 0x800 - period: a trigger leaves the divider at 0x800 - period, and a
\* tick in which the duty step or wave position advances reloaded it to
\* 0x800 - period at the underflow.
C38_DividerReload ==
    [][ /\ (InTrigger /\ bus_addr' # 65315) =>
             ChannelAt(apu', bus_addr').period_divider =
                 2048 - ChannelAt(apu', bus_addr').period
        /\ InBusTick =>
             \A n \in SoundTicks :
                /\ DividerReloaded(apu.square1, apu'.square1,
                       apu.square1.duty_step, apu'.square1.duty_step, n)
                /\ DividerReloaded(apu.square2, apu'.square2,
                       apu.square2.duty_step, apu'.square2.duty_step, n)
                /\ DividerReloaded(apu.wave, apu'.wave,
                       apu.wave.position, apu'.wave.position, 2 * n)
      ]_vars

\* the result of a sweep calculation from shadow frequency f
SweepResult(f, shift, add) ==
    IF add THEN f + (f \div (2 ^ shift)) ELSE f - (f \div (2 ^ shift))

\* this tick enters frame step 2 or 6 with the sweep timer of channel 1
\* running out, the sweep enabled and its period non-zero
InSweepCalc ==
    /\ InBusTick /\ StepEntered \in {2, 6}
    /\ apu.square1.sweep.counter <= 1
    /\ apu.square1.sweep.enabled /\ apu.square1.sweep.period > 0

\* the period a write of NR14 leaves in channel 1
WrittenPeriod == (apu.square1.period % 256) + (bus_data' % 8) * 256

\* this step triggers channel 1 with a non-zero sweep shift
InTriggerCalc ==
    InTrigger /\ bus_addr' = 65300 /\ apu.square1.sweep.shift # 0

\* channel 1's period and sweep shadow after the step are p and f
PeriodShadow(p, f) ==
    apu'.square1.period = p /\ apu'.square1.sweep.shadow_freq = f

\* the period and shadow stay within 0x7FF; a sweep-clock calculation from
\* the shadow whose result r exceeds 0x7FF switches the channel off and
\* writes nothing, and one within range with shift > 0 is written to period
\* and shadow and checked once more
SweepClockRule ==
    /\ apu.square1.period <= 2047 /\ apu.square1.sweep.shadow_freq <= 2047
    /\ InSweepCalc =>
         \A shift \in {apu.square1.sweep.shift} :
         \A add \in {apu.square1.sweep.direction} :
         \A r \in {SweepResult(apu.square1.sweep.shadow_freq, shift, add)} :
            IF r > 2047
            THEN /\ ~apu'.square1.enabled
                 /\ PeriodShadow(apu.square1.period,
                                 apu.square1.sweep.shadow_freq)
            ELSE IF shift > 0
            THEN /\ PeriodShadow(r, r)
                 /\ SweepResult(r, shift, add) > 2047 => ~apu'.square1.enabled
            ELSE PeriodShadow(apu.square1.period,
                              apu.square1.sweep.shadow_freq)

\* a write of NR10 with direction add after a subtract calculation since the
\* last trigger switches channel 1 off
NegateRule ==
    (InBusWrite /\ bus_addr' = 65296 /\ apu.audio_on
        /\ apu.square1.sweep.neg_calc_made /\ (bus_data' \div 8) % 2 = 0) =>
      ~apu'.square1.enabled

\* C39 as stated: SweepClockRule and NegateRule, and the calculation of a
\* trigger with non-zero shift treated like that of a sweep clock: a result
\* above 0x7FF switches the channel off and writes nothing, a result within
\* range is written to period and shadow.
C39_SweepWritesBack ==
    [][ /\ SweepClockRule /\ NegateRule
        /\ InTriggerCalc =>
             \A r \in {SweepResult(WrittenPeriod, apu.square1.sweep.shift,
                                   apu.square1.sweep.direction)} :
                IF r > 2047
                THEN ~apu'.square1.enabled
                     /\ PeriodShadow(WrittenPeriod, WrittenPeriod)
                ELSE PeriodShadow(r, r)
      ]_vars

\* C39 (amended): SweepClockRule and NegateRule, and the calculation of a
\* trigger with non-zero shift is an overflow check only: a result above
\* 0x7FF switches the channel off, and nothing is written back in either
\* case.
C39_SweepOverflow ==
    [][ /\ SweepClockRule /\ NegateRule
        /\ InTriggerCalc =>
             \A r \in {SweepResult(WrittenPeriod, apu.square1.sweep.shift,
                                   apu.square1.sweep.direction)} :
                /\ r > 2047 => ~apu'.square1.enabled
                /\ PeriodShadow(WrittenPeriod, WrittenPeriod)
      ]_vars

\* a sweep clock on entering step 2 has written 0x7C1 - 0x3E0 = 0x3E1 to
\* channel 1's period and shadow
C39_Witness ==
    /\ bus_access = "none" /\ steps > 0
    /\ apu.frame = 2 /\ apu.frame_seq_cycles < 7
    /\ apu.square1.period = 993 /\ apu.square1.sweep.shadow_freq = 993

\* the operand of the logical instruction op: B, the imm8 or A itself
LogicOperand(op) ==
    CASE op \in {160, 176, 168} -> b
      [] op \in {230, 246, 238} -> imm8_read'
      [] op = 175 -> a

\* the result of the logical instruction op on A and the operand x
LogicResult(op, x) ==
    CASE op \in {160, 230} -> BitAnd(a, x)
      [] op \in {176, 246} -> BitOr(a, x)
      [] op \in {168, 238, 175} -> BitXor(a, x)

\* C40: every AND, OR and XOR on A, register or immediate form, leaves the
\* result in A and sets Z iff the result is zero, clears N and C and sets H
\* for AND and clears it for OR and XOR (so XOR A,A leaves A = 0, F = 0x80,
\* and OR A,imm8 sets the flags as OR A,r8 does).
C40_LogicFlags ==
    [][ (at = "fetch" /\ at' = "check" /\ opcode_num' \in
            {160, 230, 176, 246, 168, 238, 175}) =>
          \A r \in {LogicResult(opcode_num', LogicOperand(opcode_num'))} :
            /\ a' = r
            /\ flags' = (IF r = 0 THEN 128 ELSE 0)
                        + (IF opcode_num' \in {160, 230} THEN 32 ELSE 0)
      ]_vars

====
